---------------------------- MODULE Spec2Model ----------------------------
(***************************************************************************)
(* Resume / job-description matcher: the JSON recovery pipeline and schema *)
(* normaliser of json_parser.py and the scoring engine of                  *)
(* matching_engine.py, as state machines over the last call made.          *)
(*                                                                         *)
(* Python values are tagged records of one shape (PyValue below); Python   *)
(* strings are sequences of one-character strings, so that strip(),        *)
(* lower(), find(), count(), slicing and `in` are computed, not assumed.   *)
(***************************************************************************)
EXTENDS Integers, Sequences, FiniteSets, TLC

VARIABLES
    pc,                 \* "call" before the call, then the name of the function called
    resume_data,        \* scorer input: the candidate record (a Python dict)
    jd_data,            \* scorer input: the requirement record (a Python dict)
    score_in,           \* get_assessment's argument
    experience_result,  \* check_experience_match's return value
    education_result,   \* check_education_match's return value
    skills_result,      \* check_skills_match's return value
    match_result,       \* calculate_match's return value (or the raise)
    response_text,      \* parser input: the raw response
    doc_type,           \* "Resume" or "Job Description"
    json_str,           \* extract_json_string's return value
    data,               \* the parsed / normalised record
    today,              \* the day datetime.now() falls on, as an ordinal
    match_candidate,    \* find_skill_match's first argument
    match_required,     \* find_skill_match's second argument
    skill_match,        \* find_skill_match's return value
    exp_entries,        \* calculate_experience_from_details's argument
    exp_periods,        \* its local list periods, as the merge loop reads it
    exp_total,          \* its return value <<years, months>>
    batch_jd_ok,        \* batch_match: the job description was extracted
    batch_files,        \* its files: what reading and scoring each one yields
    batch_index,        \* the number of files its loop has handled
    batch_results,      \* its list results
    batch_errors,       \* its list errors
    extraction_cache,   \* llm_extraction.extraction_cache
    ollama_prompt,      \* call_ollama's argument prompt
    ollama_max_retries, \* its argument max_retries
    ollama_attempt,     \* the attempts its loop has made
    ollama_requests,    \* the requests it has posted in this call
    ollama_returned,    \* what its last call returned
    ollama_calls        \* the calls made so far

vars == <<pc, resume_data, jd_data, score_in, experience_result, education_result,
          skills_result, match_result, response_text, doc_type, json_str, data, today,
          match_candidate, match_required, skill_match, exp_entries, exp_periods,
          exp_total, batch_jd_ok, batch_files, batch_index, batch_results, batch_errors,
          extraction_cache, ollama_prompt, ollama_max_retries, ollama_attempt,
          ollama_requests, ollama_returned, ollama_calls>>

scoringVars == <<resume_data, jd_data, score_in, experience_result, education_result,
                 skills_result, match_result>>

parsingVars == <<response_text, doc_type, json_str, data, today>>

resolverVars == <<match_candidate, match_required, skill_match>>

aggregatorVars == <<exp_entries, exp_periods, exp_total>>

batchVars == <<batch_jd_ok, batch_files, batch_index, batch_results, batch_errors>>

ollamaVars == <<extraction_cache, ollama_prompt, ollama_max_retries, ollama_attempt,
                ollama_requests, ollama_returned, ollama_calls>>

-----------------------------------------------------------------------------
(* Generic sequence helpers *)

\* a TLA+ string literal as a Python string (a sequence of characters)
Chars(str) == [i \in 1..Len(str) |-> SubSeq(str, i, i)]

Max(a, b) == IF a >= b THEN a ELSE b

Min(a, b) == IF a <= b THEN a ELSE b

Abs(a) == IF a < 0 THEN -a ELSE a

RECURSIVE Pow2(_)
Pow2(e) == IF e <= 0 THEN 1 ELSE 2 * Pow2(e - 1)

\* s[a..b] with Python's tolerance for empty ranges
Slice(s, a, b) == IF a > b THEN <<>> ELSE SubSeq(s, a, b)

\* number of occurrences of the character c in s: str.count(c)
Count(s, c) == Cardinality({i \in 1..Len(s) : s[i] = c})

\* the least element of a non-empty set of integers
MinOf(S) == CHOOSE x \in S : \A y \in S : x <= y

\* 1-based index of the first / last occurrence of c in s, 0 when absent
\* (str.find / str.rfind return -1 for absent and are 0-based)
Find(s, c) ==
    IF \E i \in 1..Len(s) : s[i] = c
    THEN CHOOSE i \in 1..Len(s) : s[i] = c /\ \A j \in 1..(i - 1) : s[j] /= c
    ELSE 0

RFind(s, c) ==
    IF \E i \in 1..Len(s) : s[i] = c
    THEN CHOOSE i \in 1..Len(s) : s[i] = c /\ \A j \in (i + 1)..Len(s) : s[j] /= c
    ELSE 0

\* key in s, for strings: s has key as a contiguous substring
Contains(s, key) ==
    \E i \in 0..(Len(s) - Len(key)) :
        \A j \in 1..Len(key) : s[i + j] = key[j]

IsSpace(c) == c \in {" ", "\n", "\t"}

RECURSIVE LStrip(_)
LStrip(s) == IF s /= <<>> /\ IsSpace(Head(s)) THEN LStrip(Tail(s)) ELSE s

RECURSIVE RStrip(_)
RStrip(s) ==
    IF s /= <<>> /\ IsSpace(s[Len(s)]) THEN RStrip(SubSeq(s, 1, Len(s) - 1)) ELSE s

\* str.strip()
Strip(s) == RStrip(LStrip(s))

UpperCase == Chars("ABCDEFGHIJKLMNOPQRSTUVWXYZ")

LowerCase == Chars("abcdefghijklmnopqrstuvwxyz")

\* str.lower() of one character
LowerChar(c) ==
    IF \E i \in 1..26 : UpperCase[i] = c
    THEN LowerCase[CHOOSE i \in 1..26 : UpperCase[i] = c]
    ELSE c

\* str.lower()
Lower(s) == [i \in 1..Len(s) |-> LowerChar(s[i])]

Digits == {"0", "1", "2", "3", "4", "5", "6", "7", "8", "9"}

DigitVal(c) == CHOOSE d \in 0..9 : Chars("0123456789")[d + 1] = c

RECURSIVE DigitsVal(_)
DigitsVal(s) ==
    IF s = <<>> THEN 0
    ELSE 10 * DigitsVal(SubSeq(s, 1, Len(s) - 1)) + DigitVal(s[Len(s)])

AllDigits(s) == s /= <<>> /\ \A i \in 1..Len(s) : s[i] \in Digits

-----------------------------------------------------------------------------
(* Python values.  Every value is a record of the same five fields:        *)
(*   t  the type tag: "none" "bool" "int" "float" "str" "list" "dict"      *)
(*   n  the number (int) or 0/1 (bool)                                     *)
(*   s  the characters (str) or the numeral (float)                        *)
(*   l  the elements (list) or the values in insertion order (dict)        *)
(*   k  the keys in insertion order (dict)                                 *)

PyNone == [t |-> "none", n |-> 0, s |-> <<>>, l |-> <<>>, k |-> <<>>]

PyInt(i) == [t |-> "int", n |-> i, s |-> <<>>, l |-> <<>>, k |-> <<>>]

PyBool(b) == [t |-> "bool", n |-> IF b THEN 1 ELSE 0, s |-> <<>>, l |-> <<>>, k |-> <<>>]

PyStr(chars) == [t |-> "str", n |-> 0, s |-> chars, l |-> <<>>, k |-> <<>>]

PyList(elems) == [t |-> "list", n |-> 0, s |-> <<>>, l |-> elems, k |-> <<>>]

PyDict(keys, vals) == [t |-> "dict", n |-> 0, s |-> <<>>, l |-> vals, k |-> keys]

EmptyDict == PyDict(<<>>, <<>>)

\* a float, kept as the numeral that denotes it: digits with a fraction or an
\* exponent, or one of nan, inf, -inf
PyFloatValue(chars) == [t |-> "float", n |-> 0, s |-> chars, l |-> <<>>, k |-> <<>>]

\* bool(v): the truth value `not v`, `v or 0` and `if v` test
PyTruthy(v) ==
    CASE v.t = "none" -> FALSE
      [] v.t = "bool" -> v.n = 1
      [] v.t = "int"  -> v.n /= 0
      [] v.t = "float" ->
            \/ v.s \in {<<"n", "a", "n">>, <<"i", "n", "f">>, <<"-", "i", "n", "f">>}
            \/ \E i \in 1..Len(v.s) :
                  /\ v.s[i] \in {"1", "2", "3", "4", "5", "6", "7", "8", "9"}
                  /\ \A j \in 1..(i - 1) : v.s[j] \notin {"e", "E"}
      [] v.t = "str"  -> v.s /= <<>>
      [] v.t = "list" -> v.l /= <<>>
      [] v.t = "dict" -> v.k /= <<>>

\* key in d
DictHas(d, key) == \E i \in 1..Len(d.k) : d.k[i] = key

\* d.get(key, default)
DictGet(d, key, default) ==
    IF DictHas(d, key)
    THEN d.l[CHOOSE i \in 1..Len(d.k) : d.k[i] = key]
    ELSE default

\* d[key] = v: a present key keeps its place, a new key goes last
DictSet(d, key, v) ==
    IF DictHas(d, key)
    THEN LET i == CHOOSE j \in 1..Len(d.k) : d.k[j] = key
         IN  PyDict(d.k, [d.l EXCEPT ![i] = v])
    ELSE PyDict(Append(d.k, key), Append(d.l, v))



\* {"key": v}
Dict1(key, v) == PyDict(<<Chars(key)>>, <<v>>)

-----------------------------------------------------------------------------
(* Python numbers *)

RECURSIVE Pow10(_)
Pow10(e) == IF e <= 0 THEN 1 ELSE 10 * Pow10(e - 1)

\* the index after the digits of s that start at i
RECURSIVE SkipDigits(_, _)
SkipDigits(s, i) == IF i <= Len(s) /\ s[i] \in Digits THEN SkipDigits(s, i + 1) ELSE i

\* float() of a numeral: optional sign, digits with an optional point, an
\* optional exponent; or inf, infinity, nan in any case.  n is the value cut
\* to its integer part (the numerals of the model stay below 2^31 and are
\* short enough to be exact as doubles); special is "inf" or "nan" for those.
\* The unsigned numeral u has its integer digits before index a, its fraction
\* before b and its exponent before c.
FloatOfChars(body) ==
    LET Scaled(neg, ok, all, p) ==
            LET zero == \A i \in 1..Len(all) : all[i] = "0"
                mag  == IF p <= 0 \/ zero THEN 0
                        ELSE IF p >= Len(all) THEN DigitsVal(all) * Pow10(p - Len(all))
                        ELSE DigitsVal(SubSeq(all, 1, p))
            IN  IF ~ok THEN [ok |-> FALSE, n |-> 0, special |-> ""]
                ELSE IF ~zero /\ p > 308 THEN [ok |-> TRUE, n |-> 0, special |-> "inf"]
                ELSE [ok |-> TRUE, n |-> IF neg THEN -mag ELSE mag, special |-> ""]
        Digited(neg, u, ok, intd, fracd, expd, eneg) ==
            Scaled(neg, ok, intd \o fracd,
                   Len(intd) + (IF eneg THEN -DigitsVal(expd) ELSE DigitsVal(expd)))
        Value(neg, u, a, b, esign, c) ==
            LET hasDot == a <= Len(u) /\ u[a] = "."
                hasE   == b <= Len(u) /\ u[b] \in {"e", "E"}
                e1     == IF esign THEN b + 2 ELSE b + 1
            IN  Digited(neg, u,
                        /\ a > 1 \/ (hasDot /\ b > a + 1)
                        /\ hasE => c > e1
                        /\ c = Len(u) + 1,
                        Slice(u, 1, a - 1),
                        IF hasDot THEN Slice(u, a + 1, b - 1) ELSE <<>>,
                        IF hasE THEN Slice(u, e1, c - 1) ELSE <<>>,
                        esign /\ u[b + 1] = "-")
        Exponent(neg, u, a, b, esign) ==
            Value(neg, u, a, b, esign,
                  IF b <= Len(u) /\ u[b] \in {"e", "E"}
                  THEN SkipDigits(u, IF esign THEN b + 2 ELSE b + 1) ELSE b)
        Fraction(neg, u, a, b) ==
            Exponent(neg, u, a, b,
                     /\ b <= Len(u) /\ u[b] \in {"e", "E"}
                     /\ b + 1 <= Len(u) /\ u[b + 1] \in {"-", "+"})
        Unsigned(neg, u, a) ==
            IF Lower(u) \in {Chars("inf"), Chars("infinity")}
            THEN [ok |-> TRUE, n |-> 0, special |-> "inf"]
            ELSE IF Lower(u) = Chars("nan") THEN [ok |-> TRUE, n |-> 0, special |-> "nan"]
            ELSE Fraction(neg, u, a,
                          IF a <= Len(u) /\ u[a] = "." THEN SkipDigits(u, a + 1) ELSE a)
        Signed(neg, u) == Unsigned(neg, u, SkipDigits(u, 1))
    IN  Signed(body /= <<>> /\ Head(body) = "-",
               IF body /= <<>> /\ Head(body) \in {"-", "+"} THEN Tail(body) ELSE body)

\* float(v): ok is FALSE when the call raises (ValueError for a string that
\* is no numeral, TypeError for None, a list or a dict).  The scorer is fed
\* whole numbers, for which n is the float itself.
PyFloat(v) ==
    CASE v.t \in {"int", "bool"} -> [ok |-> TRUE, n |-> v.n, special |-> ""]
      [] v.t \in {"float", "str"} ->
            FloatOfChars(IF v.t = "float" THEN v.s ELSE Strip(v.s))
      [] OTHER -> [ok |-> FALSE, n |-> 0, special |-> ""]

\* (2^e * c) mod r, by repeated doubling
RECURSIVE ShiftMod(_, _, _)
ShiftMod(c, e, r) == IF e = 0 THEN c % r ELSE (2 * ShiftMod(c, e - 1, r)) % r

\* IEEE-754 binary64 evaluation of (c / r) * w for integers 0 < c < r, w > 0:
\* TRUE when the exact value c*w/r is an integer k but the double product is
\* below k, so that int() yields k - 1.  c/r is rounded to 53 significant
\* bits; j is its binary exponent, rho the remainder of the 53-bit quotient
\* (rounded down when 2*rho < r, or on a tie to the even quotient); the
\* product k - rho*w/(r*2^(52+j)) then rounds below k when the deficit
\* exceeds half the spacing of doubles just below k; m is the binary
\* exponent of k and e that of the spacing.
FloatProductBelow(c, r, w) ==
    LET Deficit(rho, odd, e) ==
            /\ rho /= 0 /\ (2 * rho < r \/ (2 * rho = r /\ ~odd))
            /\ IF e >= 0 THEN rho * w > r * Pow2(e) ELSE rho * w * Pow2(-e) > r
        Spacing(k, j, m) ==
            Deficit(ShiftMod(c, 52 + j, r),
                    ShiftMod(c, 52 + j, 2 * r) >= r,
                    IF k = Pow2(m) THEN j + m - 2 ELSE j + m - 1)
        Product(k, j) ==
            Spacing(k, j, CHOOSE e \in 0..31 : Pow2(e) <= k /\ k < Pow2(e + 1))
    IN  /\ (c * w) % r = 0
        /\ c * w >= r
        /\ Product((c * w) \div r,
                   CHOOSE e \in 1..32 : c * Pow2(e) >= r /\ c * Pow2(e - 1) < r)

\* int((c / r) * w) as Python computes it in doubles, for r > 0
IntOfRatioTimes(c, r, w) ==
    LET Rounded(a, exact) ==
            IF a > 0 /\ a < r /\ FloatProductBelow(a, r, w) THEN exact - 1 ELSE exact
        Truncated(got) == IF c >= 0 THEN got ELSE -got
    IN  Truncated(Rounded(Abs(c), (Abs(c) * w) \div r))

-----------------------------------------------------------------------------
(* matching_engine.py: experience *)

EXPERIENCE_WEIGHT == 35

\* met, as line 69 computes it, ahead of every branch
ExperienceMet(candidate_years, required_years) == candidate_years >= required_years

\* percentage of the three branches (lines 71-83)
ExperiencePercentage(candidate_years, required_years) ==
    IF required_years = 0 \/ candidate_years >= required_years THEN 100
    ELSE IF required_years > 0
         THEN IntOfRatioTimes(candidate_years, required_years, 100) ELSE 0

\* ExperienceScore without the cap at the requirement
ExperienceScoreUncapped(candidate_years, required_years) ==
    IF required_years <= 0 THEN EXPERIENCE_WEIGHT
    ELSE Max(1, IntOfRatioTimes(candidate_years, required_years, EXPERIENCE_WEIGHT))

\* score of the three branches (lines 71-83)
ExperienceScore(candidate_years, required_years) ==
    IF required_years = 0 \/ candidate_years >= required_years THEN EXPERIENCE_WEIGHT
    ELSE Max(1, IF required_years > 0
                THEN IntOfRatioTimes(candidate_years, required_years, EXPERIENCE_WEIGHT)
                ELSE 0)

check_experience_match(resume, jd) ==
    LET Result(candidate_years, required_years) ==
            [met |-> ExperienceMet(candidate_years, required_years),
             candidateExperience |-> candidate_years,
             requiredExperience |-> required_years,
             details |-> IF required_years = 0 THEN "experience: none required"
                         ELSE IF candidate_years >= required_years THEN "experience: matches"
                         ELSE "experience: partial",
             score |-> ExperienceScore(candidate_years, required_years),
             percentage |-> Min(100, ExperiencePercentage(candidate_years, required_years))]
        \* the bare except: either conversion failing zeroes both
        Years(cf, rf) ==
            Result(IF cf.ok /\ rf.ok THEN cf.n ELSE 0, IF cf.ok /\ rf.ok THEN rf.n ELSE 0)
        OrZero(v) == IF PyTruthy(v) THEN v ELSE PyInt(0)
    IN  Years(PyFloat(OrZero(DictGet(resume, Chars("totalYearsExperience"), PyInt(0)))),
              PyFloat(OrZero(DictGet(jd, Chars("minExperienceYears"), PyInt(0)))))

-----------------------------------------------------------------------------
(* Python str() *)

RECURSIVE NatChars(_)
NatChars(i) ==
    LET d == <<"0", "1", "2", "3", "4", "5", "6", "7", "8", "9">>[(i % 10) + 1]
    IN  IF i < 10 THEN <<d>> ELSE Append(NatChars(i \div 10), d)

RECURSIVE PyRepr(_)
RECURSIVE JoinRepr(_, _, _)
\* ", ".join of the reprs of l[i..], each dict item as key: value
JoinRepr(keys, l, i) ==
    IF i > Len(l) THEN <<>>
    ELSE (IF keys = <<>> THEN <<>> ELSE <<"'">> \o keys[i] \o <<"'", ":", " ">>)
         \o PyRepr(l[i])
         \o (IF i < Len(l) THEN <<",", " ">> ELSE <<>>)
         \o JoinRepr(keys, l, i + 1)

\* repr(v); the strings of the model hold no quote or backslash to escape
PyRepr(v) ==
    CASE v.t = "none" -> Chars("None")
      [] v.t = "bool" -> IF v.n = 1 THEN Chars("True") ELSE Chars("False")
      [] v.t = "int"  -> IF v.n < 0 THEN <<"-">> \o NatChars(-v.n) ELSE NatChars(v.n)
      [] v.t = "float" -> v.s
      [] v.t = "str"  -> <<"'">> \o v.s \o <<"'">>
      [] v.t = "list" -> <<"[">> \o JoinRepr(<<>>, v.l, 1) \o <<"]">>
      [] v.t = "dict" -> <<"{">> \o JoinRepr(v.k, v.l, 1) \o <<"}">>

\* str(v)
PyStrOf(v) == IF v.t = "str" THEN v.s ELSE PyRepr(v)

-----------------------------------------------------------------------------
(* matching_engine.py: education *)

EDUCATION_WEIGHT == 25

\* the dict literal, in its iteration (insertion) order
EDUCATION_HIERARCHY ==
    << <<Chars("phd"), 4>>, <<Chars("doctorate"), 4>>, <<Chars("master"), 3>>,
       <<Chars("m.tech"), 3>>, <<Chars("mba"), 3>>, <<Chars("bachelor"), 2>>,
       <<Chars("b.tech"), 2>>, <<Chars("b.s"), 2>>, <<Chars("b.a"), 2>>,
       <<Chars("diploma"), 1>>, <<Chars("high school"), 0>> >>

NOT_SPECIFIED == PyStr(Chars("not specified"))

\* the level of the returned (key, level) pair
normalize_education(degree) ==
    LET Level(hits) ==
            IF hits = {} THEN 0
            ELSE EDUCATION_HIERARCHY[CHOOSE i \in hits : \A j \in hits : i <= j][2]
        Search(degree_lower) ==
            Level({i \in 1..Len(EDUCATION_HIERARCHY) :
                      Contains(degree_lower, EDUCATION_HIERARCHY[i][1])})
    IN  IF ~PyTruthy(degree) THEN 0
        ELSE Search(Strip(Lower(PyStrOf(degree))))

\* the degree string read from one education entry
EntryDegree(edu_item) ==
    IF edu_item.t = "dict" THEN DictGet(edu_item, Chars("degree"), NOT_SPECIFIED)
    ELSE IF PyTruthy(edu_item) THEN PyStr(PyStrOf(edu_item)) ELSE NOT_SPECIFIED

\* the loop over education_list from entry i on: <<highest_level, highest_degree>>
RECURSIVE HighestLoop(_, _, _, _)
HighestLoop(education_list, i, highest_level, highest_degree) ==
    LET Step(degree_str, level) ==
            IF level > highest_level
            THEN HighestLoop(education_list, i + 1, level, degree_str)
            ELSE HighestLoop(education_list, i + 1, highest_level, highest_degree)
        Entry(degree_str) == Step(degree_str, normalize_education(degree_str))
    IN  IF i > Len(education_list) THEN <<highest_level, highest_degree>>
        ELSE Entry(EntryDegree(education_list[i]))

\* score of the three branches (lines 156-171); unspecified is
\* required_degree == "not specified"
EducationScore(candidate_level, required_level, unspecified) ==
    IF required_level = 0 \/ unspecified \/ candidate_level >= required_level
    THEN EDUCATION_WEIGHT
    ELSE Max(1, IF required_level > 0
                THEN IntOfRatioTimes(candidate_level, required_level, EDUCATION_WEIGHT)
                ELSE 0)

EducationPercentage(candidate_level, required_level, unspecified) ==
    IF required_level = 0 \/ unspecified \/ candidate_level >= required_level
    THEN 100
    ELSE IF required_level > 0
         THEN IntOfRatioTimes(candidate_level, required_level, 100) ELSE 0

\* HighestEducation reading the first entry alone
FirstEntryEducation(education_list) ==
    IF education_list.t = "list" /\ education_list.l /= <<>>
    THEN HighestLoop(<<education_list.l[1]>>, 1, 0, NOT_SPECIFIED)
    ELSE <<0, NOT_SPECIFIED>>

\* <<candidate_level, candidate_degree>> (lines 125-149)
HighestEducation(education_list) ==
    IF education_list.t = "list" /\ education_list.l /= <<>>
    THEN HighestLoop(education_list.l, 1, 0, NOT_SPECIFIED)
    ELSE <<0, NOT_SPECIFIED>>

check_education_match(resume, jd) ==
    LET Result(candidate_level, candidate_degree, required_degree, required_level,
               unspecified) ==
            [met |-> candidate_level >= required_level,
             candidateDegree |-> candidate_degree,
             requiredDegree |-> required_degree,
             details |-> IF required_level = 0 \/ unspecified THEN "education: none required"
                         ELSE IF candidate_level > required_level
                              THEN "education: overqualified"
                         ELSE IF candidate_level = required_level THEN "education: matches"
                         ELSE "education: partial",
             score |-> EducationScore(candidate_level, required_level, unspecified),
             percentage |-> Min(100, EducationPercentage(candidate_level, required_level,
                                                         unspecified)),
             isOverqualified |-> candidate_level > required_level /\ required_level > 0]
        Compared(highest, required_degree) ==
            Result(highest[1], highest[2], required_degree,
                   normalize_education(required_degree), required_degree = NOT_SPECIFIED)
    IN  Compared(HighestEducation(DictGet(resume, Chars("education"), PyList(<<>>))),
                 DictGet(jd, Chars("requiredEducation"), NOT_SPECIFIED))

-----------------------------------------------------------------------------
(* matching_engine.py: skills *)

SKILLS_WEIGHT == 40

LowerLetters ==
    {"a", "b", "c", "d", "e", "f", "g", "h", "i", "j", "k", "l", "m",
     "n", "o", "p", "q", "r", "s", "t", "u", "v", "w", "x", "y", "z"}

\* ' '.join(s.split()): runs of whitespace become one space, the ends are bare
RECURSIVE CollapseSpaces(_)
CollapseSpaces(s) ==
    LET Join(word, rest) == word \o (IF rest = <<>> THEN <<>> ELSE <<" ">> \o rest)
        \* t starts with a word of n characters
        Split(t, n) == Join(SubSeq(t, 1, n), CollapseSpaces(Slice(t, n + 1, Len(t))))
        Words(t) ==
            IF t = <<>> THEN <<>>
            ELSE Split(t, IF \E i \in 1..Len(t) : IsSpace(t[i])
                          THEN (CHOOSE i \in 1..Len(t) :
                                   IsSpace(t[i]) /\ \A j \in 1..(i - 1) : ~IsSpace(t[j])) - 1
                          ELSE Len(t))
    IN  Words(LStrip(s))

\* normalize_skill of a value: lower, strip, drop [^a-z0-9\s], collapse spaces
normalize_skill(skill) ==
    IF ~PyTruthy(skill) THEN <<>>
    ELSE CollapseSpaces(
            SelectSeq(Strip(Lower(PyStrOf(skill))),
                      LAMBDA c : c \in LowerLetters \/ c \in Digits \/ IsSpace(c)))

\* skills_analogy.get_skill_group: the list of categories it builds names
\* TESTING, AI_ML_ADVANCED and SOFT_SKILLS, which skills_analogy.py never
\* defines, so every call that passes the `if not skill_name` guard raises
\* NameError before any table is searched.
get_skill_group(skill_name) ==
    IF ~PyTruthy(skill_name)
    THEN [raised |-> FALSE, group |-> <<>>]
    ELSE [raised |-> TRUE, group |-> <<>>]

\* the rows <<primary, aliases>> of PROGRAMMING, WEB_FRONTEND, DATABASES,
\* CLOUD_DEVOPS, DATA_ML and BUSINESS_SKILLS that hold a skill of the runs, in
\* the order the loop of lines 579-591 would read them
ALIAS_ROWS ==
    << <<"python", <<"py", "python3", "python 3">> >>,
       <<"javascript", <<"js", "nodejs", "node.js", "typescript", "ts">> >>,
       <<"java", <<"springboot", "spring", "j2ee">> >>,
       <<"react", <<"reactjs", "react.js", "jsx", "react native">> >>,
       <<"sql", <<"mysql", "postgresql", "postgres", "t-sql", "tsql", "sql server",
                  "oracle", "mariadb">> >>,
       <<"kubernetes", <<"k8s", "container orchestration", "docker">> >>,
       <<"tensorflow", <<"machine learning", "ml", "deep learning", "keras">> >>,
       <<"adaptability", <<"flexibility", "learning">> >> >>

\* the primary skill the alias tables give a skill (lines 572-593 with every
\* category defined): the first row that names it, <<>> when none does
CanonicalGroup(skill_name) ==
    LET Named(row, skill_lower) ==
            \/ skill_lower = Chars(row[1])
            \/ \E i \in 1..Len(row[2]) : skill_lower = Chars(row[2][i])
        First(rows) ==
            IF rows = {} THEN <<>> ELSE Chars(ALIAS_ROWS[MinOf(rows)][1])
        Search(skill_lower) ==
            First({r \in 1..Len(ALIAS_ROWS) : Named(ALIAS_ROWS[r], skill_lower)})
        Spaced(t) == [i \in 1..Len(t) |-> IF t[i] = "-" THEN " " ELSE t[i]]
    IN  IF ~PyTruthy(skill_name) THEN <<>>
        ELSE Search(Spaced(SelectSeq(Strip(Lower(PyStrOf(skill_name))),
                                     LAMBDA c : c /= ".")))

\* difflib.SequenceMatcher.find_longest_match on a[alo..ahi], b[blo..bhi]
\* (1-based, inclusive): the longest common block, earliest in a, then in b
LongestMatch(a, alo, ahi, b, blo, bhi) ==
    LET Longest(blocks) ==
            IF blocks = {} THEN <<alo, blo, 0>>
            ELSE CHOOSE x \in blocks :
                    \A y \in blocks :
                        \/ x[3] > y[3]
                        \/ (x[3] = y[3] /\ x[1] < y[1])
                        \/ (x[3] = y[3] /\ x[1] = y[1] /\ x[2] <= y[2])
    IN  Longest({blk \in (alo..ahi) \X (blo..bhi) \X (1..Len(a)) :
                    /\ blk[1] + blk[3] - 1 <= ahi
                    /\ blk[2] + blk[3] - 1 <= bhi
                    /\ \A d \in 0..(blk[3] - 1) : a[blk[1] + d] = b[blk[2] + d]})

\* the total size of SequenceMatcher.get_matching_blocks
RECURSIVE MatchingSize(_, _, _, _, _, _)
MatchingSize(a, alo, ahi, b, blo, bhi) ==
    LET Around(m) ==
            IF m[3] = 0 THEN 0
            ELSE m[3]
                 + MatchingSize(a, alo, m[1] - 1, b, blo, m[2] - 1)
                 + MatchingSize(a, m[1] + m[3], ahi, b, m[2] + m[3], bhi)
    IN  IF alo > ahi \/ blo > bhi THEN 0
        ELSE Around(LongestMatch(a, alo, ahi, b, blo, bhi))

\* SequenceMatcher(None, a, b).ratio() as the fraction <<2M, T>>
Ratio(a, b) ==
    IF Len(a) + Len(b) = 0 THEN <<1, 1>>
    ELSE <<2 * MatchingSize(a, 1, Len(a), b, 1, Len(b)), Len(a) + Len(b)>>

\* confidences are fractions <<numerator, denominator>>
ConfGreater(x, y) == x[1] * y[2] > y[1] * x[2]

ConfAtLeast(x, y) == x[1] * y[2] >= y[1] * x[2]

SIMILARITY_THRESHOLD == <<70, 100>>

find_skill_match(candidate_skill, required_skill) ==
    LET \* strategies 3 and 4
        Fuzzy(cand_norm, req_norm, similarity) ==
            IF ConfAtLeast(similarity, SIMILARITY_THRESHOLD)
            THEN [is_match |-> TRUE, type |-> "fuzzy", confidence |-> similarity]
            ELSE IF /\ Len(req_norm) > 3 /\ Len(cand_norm) > 3
                    /\ (Contains(req_norm, cand_norm) \/ Contains(cand_norm, req_norm))
            THEN [is_match |-> TRUE, type |-> "substring", confidence |-> <<88, 100>>]
            ELSE [is_match |-> FALSE, type |-> "no_match", confidence |-> <<0, 1>>]
        \* strategies 1 and 2
        Exact(cand_norm, req_norm, cand_group, req_group) ==
            IF cand_norm = <<>> \/ req_norm = <<>>
            THEN [is_match |-> FALSE, type |-> "invalid", confidence |-> <<0, 1>>]
            ELSE IF cand_norm = req_norm
            THEN [is_match |-> TRUE, type |-> "exact", confidence |-> <<1, 1>>]
            ELSE IF /\ ~cand_group.raised /\ ~req_group.raised
                    /\ cand_group.group /= <<>> /\ req_group.group /= <<>>
                    /\ cand_group.group = req_group.group
            THEN [is_match |-> TRUE, type |-> "analogy", confidence |-> <<95, 100>>]
            ELSE Fuzzy(cand_norm, req_norm, Ratio(cand_norm, req_norm))
    IN  Exact(normalize_skill(candidate_skill), normalize_skill(required_skill),
              get_skill_group(candidate_skill), get_skill_group(required_skill))

\* the items a for loop visits: a list's elements, a dict's keys, a string's
\* characters; iterating any other value raises TypeError
Iterable(v) == v.t \in {"list", "dict", "str"}

IterItems(v) ==
    CASE v.t = "list" -> v.l
      [] v.t = "dict" -> [i \in 1..Len(v.k) |-> PyStr(v.k[i])]
      [] v.t = "str"  -> [i \in 1..Len(v.s) |-> PyStr(<<v.s[i]>>)]
      [] OTHER        -> <<>>

\* skill_name of one candidate entry; ok is FALSE when .strip() is called on
\* a 'name' that is no string (AttributeError)
CandidateSkillName(skill) ==
    LET Named(nm) ==
            IF nm.t = "str" THEN [ok |-> TRUE, s |-> Strip(nm.s)]
            ELSE [ok |-> FALSE, s |-> <<>>]
    IN  IF skill.t = "dict"
        THEN Named(DictGet(skill, Chars("name"), PyStr(<<>>)))
        ELSE [ok |-> TRUE, s |-> IF PyTruthy(skill) THEN Strip(PyStrOf(skill)) ELSE <<>>]

\* round(confidence, 2) in hundredths.  A tie between two hundredths is an
\* exactly representable eighth for every ratio of strings shorter than 20
\* characters each, and round() then goes to the even hundredth.
Round2(conf) ==
    LET Nearest(q, rem) ==
            IF 2 * rem > conf[2] \/ (2 * rem = conf[2] /\ q % 2 = 1) THEN q + 1 ELSE q
    IN  Nearest((100 * conf[1]) \div conf[2], (100 * conf[1]) % conf[2])

\* the inner loop of check_skills_match over candidate_skills[i..]
RECURSIVE BestMatchLoop(_, _, _, _)
BestMatchLoop(candidate_skills, i, req_skill, best) ==
    LET Update(r, better) ==
            BestMatchLoop(candidate_skills, i + 1, req_skill,
                [skill_found |-> best.skill_found \/ r.is_match,
                 matched     |-> IF better THEN candidate_skills[i] ELSE best.matched,
                 type        |-> IF better THEN r.type ELSE best.type,
                 confidence  |-> IF better THEN r.confidence ELSE best.confidence])
        Compare(r) == Update(r, r.is_match /\ ConfGreater(r.confidence, best.confidence))
    IN  IF i > Len(candidate_skills) THEN best
        ELSE Compare(find_skill_match(PyStr(candidate_skills[i]), PyStr(req_skill)))

\* BestMatch looking at the first candidate skill only
BestMatchFirstOnly(candidate_skills, req_skill) ==
    BestMatchLoop(SubSeq(candidate_skills, 1, Min(1, Len(candidate_skills))), 1, req_skill,
        [skill_found |-> FALSE, matched |-> <<>>, type |-> "none", confidence |-> <<0, 1>>])

\* BestMatch reading the candidate's skills from the last to the first
BestMatchFromLast(candidate_skills, req_skill) ==
    BestMatchLoop([i \in 1..Len(candidate_skills) |->
                      candidate_skills[Len(candidate_skills) + 1 - i]],
                  1, req_skill,
        [skill_found |-> FALSE, matched |-> <<>>, type |-> "none", confidence |-> <<0, 1>>])

\* lines 224-240: the best match of one required skill among the candidate's
BestMatch(candidate_skills, req_skill) ==
    BestMatchLoop(candidate_skills, 1, req_skill,
        [skill_found |-> FALSE, matched |-> <<>>, type |-> "none", confidence |-> <<0, 1>>])

\* RequiredSkillNames keeping the entries that strip to nothing
RequiredSkillNamesKeepBlank(required_skills_list) ==
    LET Names(req_items) == [i \in 1..Len(req_items) |-> Strip(PyStrOf(req_items[i]))]
    IN  Names(SelectSeq(IterItems(required_skills_list), LAMBDA v : PyTruthy(v)))

\* required_skills (line 203): the stripped str() of every truthy entry that
\* is not blank
RequiredSkillNames(required_skills_list) ==
    LET Names(req_items) == [i \in 1..Len(req_items) |-> Strip(PyStrOf(req_items[i]))]
    IN  Names(SelectSeq(IterItems(required_skills_list),
                        LAMBDA v : PyTruthy(v) /\ Strip(PyStrOf(v)) /= <<>>))

check_skills_match(resume, jd) ==
    LET \* lines 250-278
        Report(candidate_skills, required_skills, matched_skills, missing_skills,
               skill_match_details, percentage, score0) ==
            [raised |-> FALSE, met |-> percentage >= 50,
             candidateSkillsCount |-> Len(matched_skills),
             requiredSkillsCount |-> Len(required_skills),
             percentage |-> percentage,
             matchedSkills |-> matched_skills, missingSkills |-> missing_skills,
             skillMatchDetails |-> skill_match_details,
             details |-> IF percentage = 0 THEN "skills: no match"
                         ELSE IF percentage < 25 THEN "skills: limited"
                         ELSE IF percentage < 50 THEN "skills: partial"
                         ELSE IF percentage < 75 THEN "skills: good"
                         ELSE "skills: excellent",
             score |-> IF matched_skills /= <<>> THEN Max(1, score0) ELSE 0,
             allCandidateSkills |-> candidate_skills]
        \* matched_idx, missing_idx: the required skills found and not found
        Matched(candidate_skills, required_skills, best, matched_idx, missing_idx) ==
            Report(candidate_skills, required_skills,
                   [n \in 1..Len(matched_idx) |-> required_skills[matched_idx[n]]],
                   [n \in 1..Len(missing_idx) |-> required_skills[missing_idx[n]]],
                   [n \in 1..Len(matched_idx) |->
                       [required   |-> required_skills[matched_idx[n]],
                        matched    |-> best[matched_idx[n]].matched,
                        type       |-> best[matched_idx[n]].type,
                        confidence |-> Round2(best[matched_idx[n]].confidence)]],
                   IntOfRatioTimes(Len(matched_idx), Len(required_skills), 100),
                   IntOfRatioTimes(Len(matched_idx), Len(required_skills), SKILLS_WEIGHT))
        \* lines 223-248
        Searched(candidate_skills, required_skills, best) ==
            Matched(candidate_skills, required_skills, best,
                    SelectSeq([i \in 1..Len(required_skills) |-> i],
                              LAMBDA i : best[i].skill_found),
                    SelectSeq([i \in 1..Len(required_skills) |-> i],
                              LAMBDA i : ~best[i].skill_found))
        \* lines 205-217
        Scored(candidate_skills, required_skills) ==
            IF required_skills = <<>>
            THEN [raised |-> FALSE, met |-> TRUE,
                  candidateSkillsCount |-> Len(candidate_skills),
                  requiredSkillsCount |-> 0, percentage |-> 100,
                  matchedSkills |-> candidate_skills, missingSkills |-> <<>>,
                  skillMatchDetails |-> <<>>, details |-> "skills: none required",
                  score |-> SKILLS_WEIGHT, allCandidateSkills |-> candidate_skills]
            ELSE Searched(candidate_skills, required_skills,
                          [i \in 1..Len(required_skills) |->
                              BestMatch(candidate_skills, required_skills[i])])
        Kept(names) == [i \in 1..Len(names) |-> names[i].s]
        \* lines 189-203
        Named(candidate_skills_list, required_skills_list, cand_names) ==
            IF \/ ~Iterable(candidate_skills_list)
               \/ \E i \in 1..Len(cand_names) : ~cand_names[i].ok
               \/ ~Iterable(required_skills_list)
            THEN [raised |-> TRUE, met |-> FALSE, candidateSkillsCount |-> 0,
                  requiredSkillsCount |-> 0, percentage |-> 0, matchedSkills |-> <<>>,
                  missingSkills |-> <<>>, skillMatchDetails |-> <<>>,
                  details |-> "skills: raised", score |-> 0, allCandidateSkills |-> <<>>]
            ELSE Scored(Kept(SelectSeq(cand_names, LAMBDA c : c.s /= <<>>)),
                        RequiredSkillNames(required_skills_list))
        Items(candidate_skills_list, required_skills_list, cand_items) ==
            Named(candidate_skills_list, required_skills_list,
                  [i \in 1..Len(cand_items) |-> CandidateSkillName(cand_items[i])])
        Listed(candidate_skills_list, required_skills_list) ==
            Items(candidate_skills_list, required_skills_list,
                  IterItems(candidate_skills_list))
    IN  Listed(DictGet(resume, Chars("skills"), PyList(<<>>)),
               DictGet(jd, Chars("requiredSkills"), PyList(<<>>)))

-----------------------------------------------------------------------------
(* matching_engine.py: calculate_match *)

\* the dict literal: threshold, text
ASSESSMENT_MAP ==
    << <<90, "Excellent Match">>, <<75, "Great Match">>, <<60, "Good Match">>,
       <<40, "Moderate Match">>, <<0, "Poor Match">> >>

\* get_assessment with a strict comparison
get_assessment_strict(score) ==
    LET hits == {i \in 1..Len(ASSESSMENT_MAP) : score > ASSESSMENT_MAP[i][1]}
    IN  IF hits = {} THEN ASSESSMENT_MAP[Len(ASSESSMENT_MAP)][2]
        ELSE ASSESSMENT_MAP[CHOOSE i \in hits :
                               \A j \in hits : ASSESSMENT_MAP[i][1] >= ASSESSMENT_MAP[j][1]][2]

\* the thresholds are visited in descending order; ASSESSMENT_MAP[0] is the
\* fall-through
get_assessment(score) ==
    LET hits == {i \in 1..Len(ASSESSMENT_MAP) : score >= ASSESSMENT_MAP[i][1]}
    IN  IF hits = {} THEN ASSESSMENT_MAP[Len(ASSESSMENT_MAP)][2]
        ELSE ASSESSMENT_MAP[CHOOSE i \in hits :
                               \A j \in hits : ASSESSMENT_MAP[i][1] >= ASSESSMENT_MAP[j][1]][2]

\* overall_score (lines 347-348)
OverallScore(experience_score, education_score, skills_score) ==
    Min(100, Max(0, experience_score + education_score + skills_score))

\* Gaps with a sentence for every dimension, met or not
GapsOfAll(exp, edu, skl) ==
    << <<"Experience", exp.percentage>>, <<"Education", edu.percentage>>,
       <<"Skills", skl.percentage>> >>

\* gaps (lines 371-377): one sentence per dimension that is not met
Gaps(exp, edu, skl) ==
    (IF ~exp.met THEN << <<"Experience", exp.percentage>> >> ELSE <<>>)
    \o (IF ~edu.met THEN << <<"Education", edu.percentage>> >> ELSE <<>>)
    \o (IF ~skl.met THEN << <<"Skills", skl.percentage>> >> ELSE <<>>)

NoMatch ==
    [raised |-> TRUE, sectionScores |-> <<0, 0, 0>>, overallScore |-> 0,
     assessment |-> "", met |-> <<FALSE, FALSE, FALSE>>, gaps |-> <<>>,
     recommendations |-> <<>>]

\* sectionScores and met are in the order experience, education, skills
calculate_match(resume, jd) ==
    LET Report(exp, edu, skl, overall_score) ==
            IF skl.raised THEN NoMatch
            ELSE [raised |-> FALSE,
                  sectionScores |-> <<exp.score, edu.score, skl.score>>,
                  overallScore |-> overall_score,
                  assessment |-> get_assessment(overall_score),
                  met |-> <<exp.met, edu.met, skl.met>>,
                  gaps |-> Gaps(exp, edu, skl),
                  recommendations |-> <<exp.details, edu.details, skl.details>>]
        Summed(exp, edu, skl) ==
            Report(exp, edu, skl, OverallScore(exp.score, edu.score, skl.score))
    IN  IF ~PyTruthy(resume) \/ ~PyTruthy(jd) THEN NoMatch
        ELSE Summed(check_experience_match(resume, jd),
                    check_education_match(resume, jd),
                    check_skills_match(resume, jd))

-----------------------------------------------------------------------------
(* json_parser.py: str and re operations on texts *)

\* c * n
Repeat(c, n) == [i \in 1..n |-> c]

\* the elements of s at the indices in idx, in order
SelectIdx(s, idx) ==
    [k \in 1..Cardinality(idx) |->
        s[CHOOSE i \in idx : Cardinality({j \in idx : j <= i}) = k]]

\* s has the literal lit at index i
StartsAt(s, i, lit) ==
    /\ i + Len(lit) - 1 <= Len(s)
    /\ \A j \in 1..Len(lit) : s[i + j - 1] = lit[j]

\* the first index >= i of s that holds no whitespace (\s), Len(s) + 1 if none
RECURSIVE SkipSpace(_, _)
SkipSpace(s, i) == IF i <= Len(s) /\ IsSpace(s[i]) THEN SkipSpace(s, i + 1) ELSE i

\* [a-zA-Z0-9_], the characters \b tells apart from the others
IsWordChar(c) ==
    \/ \E i \in 1..26 : c \in {UpperCase[i], LowerCase[i]}
    \/ c \in Digits
    \/ c = "_"

\* the grave accent of a code fence: one character of a text, written by name
\* because a TLA+ string cannot hold it
BACKTICK == "<grave>"

\* re.sub(lit + r'\n?', '', s), from index i on: the matches are taken left
\* to right and do not overlap
RECURSIVE RemoveFence(_, _, _)
RemoveFence(s, i, lit) ==
    LET \* the match starts at m and the text after lit at j
        Cut(m, j) ==
            Slice(s, i, m - 1)
            \o RemoveFence(s, IF j <= Len(s) /\ s[j] = "\n" THEN j + 1 ELSE j, lit)
        First(hits) ==
            IF hits = {} THEN Slice(s, i, Len(s))
            ELSE Cut(MinOf(hits), MinOf(hits) + Len(lit))
    IN  First({k \in i..Len(s) : StartsAt(s, k, lit)})

\* auto_complete_json (lines 58-93)
auto_complete_json(partial_json) ==
    LET Closed(kept) ==
            kept \o Repeat("]", Count(kept, "[") - Count(kept, "]"))
                 \o Repeat("}", Count(kept, "{") - Count(kept, "}"))
        Trimmed(last_comma, after_comma) ==
            Closed(IF /\ last_comma /= 0
                      /\ Len(after_comma) < 100
                      /\ Count(after_comma, "\"") % 2 /= 0
                   THEN Slice(partial_json, 1, last_comma - 1)
                   ELSE partial_json)
        Comma(last_comma) ==
            Trimmed(last_comma, Strip(Slice(partial_json, last_comma, Len(partial_json))))
    IN  Comma(RFind(partial_json, ","))

\* extract_json_string (lines 14-55): None, or the text between the braces
extract_json_string(text) ==
    LET Completed(completed) == IF completed /= <<>> THEN PyStr(completed) ELSE PyNone
        Braces(cleaned, start_idx, end_idx) ==
            IF start_idx = 0 THEN PyNone
            ELSE IF end_idx = 0
                 THEN Completed(auto_complete_json(Slice(cleaned, start_idx, Len(cleaned))))
            ELSE IF start_idx >= end_idx THEN PyNone
            ELSE PyStr(Slice(cleaned, start_idx, end_idx))
        Cleaned(cleaned) == Braces(cleaned, Find(cleaned, "{"), RFind(cleaned, "}"))
        NoFence(no_json_fence) ==
            Cleaned(SelectSeq(RemoveFence(no_json_fence, 1, <<BACKTICK, BACKTICK, BACKTICK>>),
                              LAMBDA c : c /= BACKTICK))
    IN  IF text = <<>> THEN PyNone
        ELSE NoFence(RemoveFence(Strip(text), 1,
                                 <<BACKTICK, BACKTICK, BACKTICK>> \o Chars("json")))

\* Fix 1 (lines 112-114): both replace() calls of a double quote by itself
\* change nothing; the single quotes become double quotes
FixQuotes(s) == [i \in 1..Len(s) |-> IF s[i] = "'" THEN "\"" ELSE s[i]]

\* Fix 2 (line 117): a comma followed by whitespace and a closer is dropped
FixTrailingCommas(s) ==
    SelectIdx(s, {i \in 1..Len(s) :
                    ~(/\ s[i] = ","
                      /\ SkipSpace(s, i + 1) <= Len(s)
                      /\ s[SkipSpace(s, i + 1)] \in {"}", "]"})})

\* \bword\b matches at index i
WordAt(s, i, word) ==
    /\ StartsAt(s, i, word)
    /\ (i = 1 \/ ~IsWordChar(s[i - 1]))
    /\ (i + Len(word) > Len(s) \/ ~IsWordChar(s[i + Len(word)]))

\* re.sub(r'\b' + word + r'\b', repl, s), from index i on
RECURSIVE ReplaceWord(_, _, _, _)
ReplaceWord(s, i, word, repl) ==
    LET At(m) == Slice(s, i, m - 1) \o repl \o ReplaceWord(s, m + Len(word), word, repl)
        First(hits) == IF hits = {} THEN Slice(s, i, Len(s)) ELSE At(MinOf(hits))
    IN  First({k \in i..Len(s) : WordAt(s, k, word)})

\* Fix 3 (lines 120-122)
FixLiterals(s) ==
    ReplaceWord(ReplaceWord(ReplaceWord(s, 1, Chars("None"), Chars("null")),
                            1, Chars("True"), Chars("true")),
                1, Chars("False"), Chars("false"))

\* the index after the identifier [a-zA-Z0-9_]* that starts at i
RECURSIVE SkipWord(_, _)
SkipWord(s, i) == IF i <= Len(s) /\ IsWordChar(s[i]) THEN SkipWord(s, i + 1) ELSE i

\* (\{|,)\s*([a-zA-Z_][a-zA-Z0-9_]*)\s*: matches at index i; the identifier
\* starts at j and the colon is looked for at m
UnquotedKeyAt(s, i) ==
    LET Colon(j, m) ==
            /\ s[i] \in {"{", ","}
            /\ j <= Len(s) /\ IsWordChar(s[j]) /\ s[j] \notin Digits
            /\ m <= Len(s) /\ s[m] = ":"
        Key(j) == Colon(j, SkipSpace(s, SkipWord(s, j)))
    IN  Key(SkipSpace(s, i + 1))

\* Fix 4 (lines 125-129): the match becomes \1"\2":
RECURSIVE FixUnquotedKeys(_, _)
FixUnquotedKeys(s, i) ==
    LET \* the match starts at h, its identifier is s[j..k-1]
        Quoted(h, j, k) ==
            Slice(s, i, h) \o <<"\"">> \o Slice(s, j, k - 1) \o <<"\"", ":">>
            \o FixUnquotedKeys(s, SkipSpace(s, k) + 1)
        Key(h, j) == Quoted(h, j, SkipWord(s, j))
        At(h) == Key(h, SkipSpace(s, h + 1))
        First(hits) == IF hits = {} THEN Slice(s, i, Len(s)) ELSE At(MinOf(hits))
    IN  First({k \in i..Len(s) : UnquotedKeyAt(s, k)})

\* the first index >= i of s that holds a character of stop, Len(s) + 1 if none
SkipUntil(s, i, stop) ==
    LET First(hits) == IF hits = {} THEN Len(s) + 1 ELSE MinOf(hits)
    IN  First({k \in i..Len(s) : s[k] \in stop})

\* :\s*"([^"]*?)(?=,|\}|\]) matches at index i: after the quote at j, a comma
\* or a closer comes at q before any other quote
OpenStringAt(s, i) ==
    LET Stop(j, q) ==
            /\ s[i] = ":"
            /\ j <= Len(s) /\ s[j] = "\""
            /\ q <= Len(s) /\ s[q] /= "\""
        Quote(j) == Stop(j, SkipUntil(s, j + 1, {"\"", ",", "}", "]"}))
    IN  Quote(SkipSpace(s, i + 1))

\* Fix 5 (line 133): the match becomes : "\1"
RECURSIVE FixOpenStrings(_, _)
FixOpenStrings(s, i) ==
    LET \* the match starts at h, its string is s[j+1..q-1]
        Closed(h, j, q) ==
            Slice(s, i, h - 1) \o <<":", " ", "\"">> \o Slice(s, j + 1, q - 1)
            \o <<"\"">> \o FixOpenStrings(s, q)
        Quote(h, j) == Closed(h, j, SkipUntil(s, j + 1, {"\"", ",", "}", "]"}))
        At(h) == Quote(h, SkipSpace(s, h + 1))
        First(hits) == IF hits = {} THEN Slice(s, i, Len(s)) ELSE At(MinOf(hits))
    IN  First({k \in i..Len(s) : OpenStringAt(s, k)})

\* Fix 6 (lines 136-137): close \s* open becomes close , open
RECURSIVE FixMissingCommas(_, _, _, _)
FixMissingCommas(s, i, close, open) ==
    LET At(m) ==
            Slice(s, i, m) \o <<",", open>>
            \o FixMissingCommas(s, SkipSpace(s, m + 1) + 1, close, open)
        First(hits) == IF hits = {} THEN Slice(s, i, Len(s)) ELSE At(MinOf(hits))
    IN  First({k \in i..Len(s) :
                  /\ s[k] = close
                  /\ SkipSpace(s, k + 1) <= Len(s)
                  /\ s[SkipSpace(s, k + 1)] = open})

\* Fix 7 (lines 140-154): runs of whitespace outside strings become one
\* space; in_string flips at each quote that no backslash precedes
FixWhitespace(s) ==
    LET flips(i) == {j \in 1..(i - 1) : s[j] = "\"" /\ (j = 1 \/ s[j - 1] /= "\\")}
        outside(i) == IsSpace(s[i]) /\ Cardinality(flips(i)) % 2 = 0
    IN  SelectIdx([i \in 1..Len(s) |-> IF outside(i) THEN " " ELSE s[i]],
                  {i \in 1..Len(s) : outside(i) => (i = 1 \/ ~IsSpace(s[i - 1]))})

\* Fix 8 (lines 157-160): the characters below 32 other than \n \r \t; the
\* form feed is the one a TLA+ string can hold
FixControlChars(s) == SelectSeq(s, LAMBDA c : c /= "\f")

\* fix_json_string (lines 96-163), for a non-empty text
fix_json_string(text) ==
    LET fix1 == FixQuotes(text)
        fix2 == FixTrailingCommas(fix1)
        fix3 == FixLiterals(fix2)
        fix4 == FixUnquotedKeys(fix3, 1)
        fix5 == FixOpenStrings(fix4, 1)
        fix6 == FixMissingCommas(FixMissingCommas(fix5, 1, "}", "{"), 1, "]", "[")
        fix7 == FixWhitespace(fix6)
    IN  FixControlChars(fix7)

\* opens minus closes among the first i characters of s
Depth(s, i, open, close) ==
    Cardinality({j \in 1..i : s[j] = open}) - Cardinality({j \in 1..i : s[j] = close})

\* the text aggressive_json_recovery keeps (lines 179-203): from the first
\* brace to the last position where neither depth is negative
TruncateToBalanced(text) ==
    LET Balanced(from_brace, balanced) ==
            Slice(from_brace, 1,
                  Min(IF balanced = {} THEN 1
                      ELSE CHOOSE i \in balanced : \A j \in balanced : j <= i,
                      Len(from_brace)))
        FromBrace(from_brace) ==
            Balanced(from_brace,
                     {i \in 1..Len(from_brace) :
                         /\ Depth(from_brace, i, "{", "}") >= 0
                         /\ Depth(from_brace, i, "[", "]") >= 0})
        Start(start) == FromBrace(IF start > 1 THEN Slice(text, start, Len(text)) ELSE text)
    IN  Start(Find(text, "{"))

\* aggressive_json_recovery (lines 166-214)
aggressive_json_recovery(text) ==
    LET Closed(truncated, open_braces, open_brackets) ==
            IF open_braces > 0 \/ open_brackets > 0
            THEN truncated \o Repeat("}", open_braces) \o Repeat("]", open_brackets)
            ELSE truncated
        Truncated(truncated) ==
            Closed(truncated,
                   Count(truncated, "{") - Count(truncated, "}"),
                   Count(truncated, "[") - Count(truncated, "]"))
    IN  Truncated(TruncateToBalanced(text))

-----------------------------------------------------------------------------
(* json.loads: the strict parser try_parse_json calls at lines 232, 241, 250 *)

JsonWhitespace == {" ", "\t", "\n", "\r"}

\* the first index >= i of s outside JsonWhitespace, Len(s) + 1 if none
RECURSIVE SkipWs(_, _)
SkipWs(s, i) == IF i <= Len(s) /\ s[i] \in JsonWhitespace THEN SkipWs(s, i + 1) ELSE i

\* an exception that leaves the function, by its class name
PyRaise(name) == [t |-> "raise", n |-> 0, s |-> Chars(name), l |-> <<>>, k |-> <<>>]

\* a parse step: the value read and the index after it, or the failure
\* (json.JSONDecodeError)
ParseFail == [ok |-> FALSE, v |-> PyNone, next |-> 0]

\* the containers json.loads can nest: its scanner enters the interpreter's
\* recursion count once per object and per array (Py_EnterRecursiveCall), so
\* the limit is sys.getrecursionlimit(), 1000 unless the caller changed it,
\* less the frames in use.  The runs scale it to the nesting of their texts.
RecursionLimit == 8

\* the RecursionError of a container beyond the limit; it is no
\* json.JSONDecodeError
ParseDeep == [ok |-> FALSE, v |-> PyRaise("RecursionError"), next |-> 0]

ParseOk(v, next) == [ok |-> TRUE, v |-> v, next |-> next]

\* the backspace, named because a TLA+ string cannot hold it
BACKSPACE == "<backspace>"

\* the character of a one-letter escape
JsonEscape(c) ==
    CASE c = "\"" -> "\"" [] c = "\\" -> "\\" [] c = "/" -> "/"
      [] c = "b" -> BACKSPACE [] c = "f" -> "\f" [] c = "n" -> "\n"
      [] c = "r" -> "\r" [] c = "t" -> "\t"

HexDigits == Digits \cup {"a", "b", "c", "d", "e", "f", "A", "B", "C", "D", "E", "F"}

\* the string whose opening quote is before index i.  A \uXXXX escape is one
\* character, named by its digits; a raw control character is refused.
RECURSIVE ScanString(_, _, _)
ScanString(s, i, acc) ==
    IF i > Len(s) THEN ParseFail
    ELSE IF s[i] = "\"" THEN ParseOk(PyStr(acc), i + 1)
    ELSE IF s[i] = "\\"
         THEN IF i + 1 > Len(s) THEN ParseFail
              ELSE IF s[i + 1] \in {"\"", "\\", "/", "b", "f", "n", "r", "t"}
                   THEN ScanString(s, i + 2, Append(acc, JsonEscape(s[i + 1])))
              ELSE IF /\ s[i + 1] = "u"
                      /\ i + 5 <= Len(s)
                      /\ \A j \in 2..5 : s[i + j] \in HexDigits
                   THEN ScanString(s, i + 6,
                            Append(acc, "<U+" \o s[i + 2] \o s[i + 3] \o s[i + 4]
                                              \o s[i + 5] \o ">"))
              ELSE ParseFail
    ELSE IF s[i] \in {"\n", "\t", "\r", "\f", BACKSPACE} THEN ParseFail
    ELSE ScanString(s, i + 1, Append(acc, s[i]))

\* NUMBER_RE at index i: (-?(?:0|[1-9]\d*))(\.\d+)?([eE][-+]?\d+)?
MatchNumber(s, i) ==
    LET \* the integer part is s[a..b-1], the fraction ends before c and the
        \* exponent before d
        Match(a, b, c, d) ==
            [ok |-> b > a, next |-> d, isInt |-> d = b,
             n |-> IF a > i
                   THEN -DigitsVal(Slice(s, a, b - 1)) ELSE DigitsVal(Slice(s, a, b - 1))]
        Exponent(a, b, c, e) ==
            Match(a, b, c,
                  IF c <= Len(s) /\ s[c] \in {"e", "E"} /\ e <= Len(s) /\ s[e] \in Digits
                  THEN SkipDigits(s, e) ELSE c)
        Fraction(a, b, c) ==
            Exponent(a, b, c,
                     IF c + 1 <= Len(s) /\ s[c] \in {"e", "E"} /\ s[c + 1] \in {"+", "-"}
                     THEN c + 2 ELSE c + 1)
        Integer(a, b) ==
            Fraction(a, b,
                     IF b + 1 <= Len(s) /\ s[b] = "." /\ s[b + 1] \in Digits
                     THEN SkipDigits(s, b + 1) ELSE b)
        Sign(a) == Integer(a, IF a <= Len(s) /\ s[a] = "0" THEN a + 1 ELSE SkipDigits(s, a))
    IN  Sign(IF i <= Len(s) /\ s[i] = "-" THEN i + 1 ELSE i)

\* depth counts the containers around the position read
RECURSIVE ParseValue(_, _, _)
RECURSIVE ParseMembers(_, _, _, _)
RECURSIVE ParseElements(_, _, _, _)

\* JSONObject after the first key's position j is known: "key" : value , ...
ParseMembers(s, j, acc, depth) ==
    LET More(d, more) ==
            IF d > Len(s) THEN ParseFail
            ELSE IF s[d] = "}" THEN ParseOk(more, d + 1)
            ELSE IF s[d] = "," THEN ParseMembers(s, SkipWs(s, d + 1), more, depth)
            ELSE ParseFail
        Value(key, val) ==
            IF ~val.ok THEN val
            ELSE More(SkipWs(s, val.next), DictSet(acc, key.v.s, val.v))
        Colon(key, c) ==
            IF c > Len(s) \/ s[c] /= ":" THEN ParseFail
            ELSE Value(key, ParseValue(s, SkipWs(s, c + 1), depth))
        Key(key) == IF ~key.ok THEN ParseFail ELSE Colon(key, SkipWs(s, key.next))
    IN  IF j > Len(s) \/ s[j] /= "\"" THEN ParseFail
        ELSE Key(ScanString(s, j + 1, <<>>))

\* JSONArray from the position j of an element: value , ...
ParseElements(s, j, acc, depth) ==
    LET More(val, d) ==
            IF d > Len(s) THEN ParseFail
            ELSE IF s[d] = "]" THEN ParseOk(PyList(Append(acc, val.v)), d + 1)
            ELSE IF s[d] = ","
                 THEN ParseElements(s, SkipWs(s, d + 1), Append(acc, val.v), depth)
            ELSE ParseFail
        Value(val) == IF ~val.ok THEN val ELSE More(val, SkipWs(s, val.next))
    IN  Value(ParseValue(s, j, depth))

\* scan_once at index i
ParseValue(s, i, depth) ==
    LET Object(j) ==
            IF depth >= RecursionLimit THEN ParseDeep
            ELSE IF j <= Len(s) /\ s[j] = "}" THEN ParseOk(EmptyDict, j + 1)
            ELSE ParseMembers(s, j, EmptyDict, depth + 1)
        Array(j) ==
            IF depth >= RecursionLimit THEN ParseDeep
            ELSE IF j <= Len(s) /\ s[j] = "]" THEN ParseOk(PyList(<<>>), j + 1)
            ELSE ParseElements(s, j, <<>>, depth + 1)
        Number(m) ==
            IF m.ok
            THEN ParseOk(IF m.isInt THEN PyInt(m.n)
                         ELSE PyFloatValue(Slice(s, i, m.next - 1)), m.next)
            ELSE IF StartsAt(s, i, Chars("NaN"))
                 THEN ParseOk(PyFloatValue(Chars("nan")), i + 3)
            ELSE IF StartsAt(s, i, Chars("Infinity"))
                 THEN ParseOk(PyFloatValue(Chars("inf")), i + 8)
            ELSE IF StartsAt(s, i, Chars("-Infinity"))
                 THEN ParseOk(PyFloatValue(Chars("-inf")), i + 9)
            ELSE ParseFail
    IN  IF i > Len(s) THEN ParseFail
        ELSE IF s[i] = "\"" THEN ScanString(s, i + 1, <<>>)
        ELSE IF s[i] = "{" THEN Object(SkipWs(s, i + 1))
        ELSE IF s[i] = "[" THEN Array(SkipWs(s, i + 1))
        ELSE IF StartsAt(s, i, Chars("null")) THEN ParseOk(PyNone, i + 4)
        ELSE IF StartsAt(s, i, Chars("true")) THEN ParseOk(PyBool(TRUE), i + 4)
        ELSE IF StartsAt(s, i, Chars("false")) THEN ParseOk(PyBool(FALSE), i + 5)
        ELSE Number(MatchNumber(s, i))

\* json.loads(text): one value between optional whitespace, nothing after it
json_loads(text) ==
    LET End(r) == IF ~r.ok \/ SkipWs(text, r.next) = Len(text) + 1 THEN r ELSE ParseFail
    IN  End(ParseValue(text, SkipWs(text, 1), 0))

\* try_parse_json (lines 217-258): the first tier that parses, 0 when none does
ParseTier(text) ==
    IF json_loads(text).ok THEN 1
    ELSE IF json_loads(fix_json_string(text)).ok THEN 2
    ELSE IF json_loads(aggressive_json_recovery(text)).ok THEN 3
    ELSE 0

\* try_parse_json's return value; its argument is extract_json_string's.
\* Each attempt catches json.JSONDecodeError alone, so another exception of
\* json.loads leaves the function.
try_parse_json(extracted) ==
    LET Attempt3(r) == IF r.ok \/ r.v.t = "raise" THEN r.v ELSE PyNone
        Attempt2(r) ==
            IF r.ok \/ r.v.t = "raise" THEN r.v
            ELSE Attempt3(json_loads(aggressive_json_recovery(extracted.s)))
        Attempt1(r) ==
            IF r.ok \/ r.v.t = "raise" THEN r.v
            ELSE Attempt2(json_loads(fix_json_string(extracted.s)))
    IN  IF ~PyTruthy(extracted) THEN PyNone ELSE Attempt1(json_loads(extracted.s))

\* clean_json_response (lines 261-289)
clean_json_response(text) ==
    IF text = <<>> THEN PyNone ELSE try_parse_json(extract_json_string(text))

-----------------------------------------------------------------------------
(* json_parser.py: the experience aggregator.  A datetime is the ordinal of *)
(* its day (date.toordinal); NO_DATE stands for None.                       *)

NO_DATE == 0

IsLeap(y) == (y % 4 = 0 /\ y % 100 /= 0) \/ y % 400 = 0

DaysInMonth(y, m) ==
    CASE m \in {1, 3, 5, 7, 8, 10, 12} -> 31
      [] m \in {4, 6, 9, 11} -> 30
      [] OTHER -> IF IsLeap(y) THEN 29 ELSE 28

RECURSIVE DaysBeforeMonth(_, _)
DaysBeforeMonth(y, m) ==
    IF m <= 1 THEN 0 ELSE DaysBeforeMonth(y, m - 1) + DaysInMonth(y, m - 1)

\* datetime(y, m, d).toordinal()
Ordinal(y, m, d) ==
    LET p == y - 1
    IN  p * 365 + p \div 4 - p \div 100 + p \div 400 + DaysBeforeMonth(y, m) + d

\* s.split(c)
RECURSIVE SplitAt(_, _)
SplitAt(s, c) ==
    LET i == Find(s, c)
    IN  IF i = 0 THEN <<s>>
        ELSE <<Slice(s, 1, i - 1)>> \o SplitAt(Slice(s, i + 1, Len(s)), c)

\* the strptime directives %Y, %m and %d on a whole field
IsYearField(p) == Len(p) = 4 /\ AllDigits(p) /\ DigitsVal(p) >= 1

IsMonthField(p) == Len(p) \in 1..2 /\ AllDigits(p) /\ DigitsVal(p) \in 1..12

IsDayField(p) ==
    \/ Len(p) \in 1..2 /\ AllDigits(p) /\ DigitsVal(p) \in 1..31
    \/ Len(p) = 2 /\ p[1] = " " /\ p[2] \in (Digits \ {"0"})

DayOfField(p) == IF p[1] = " " THEN DigitVal(p[2]) ELSE DigitsVal(p)

\* the ordinal of year-month-day if that is a date, NO_DATE if not
DateOrNone(y, m, d) == IF d <= DaysInMonth(y, m) THEN Ordinal(y, m, d) ELSE NO_DATE

\* the loop over formats (lines 470-480) on a string of digits and hyphens:
\* of the seventeen formats only %Y, %Y-%m, %Y-%m-%d, %m-%Y and %d-%m-%Y can
\* match one, and no string matches two of them
Strptime(date_str) ==
    LET Fields(parts) ==
            CASE Len(parts) = 1 /\ IsYearField(parts[1]) ->
                    Ordinal(DigitsVal(parts[1]), 1, 1)
              [] Len(parts) = 2 /\ IsYearField(parts[1]) /\ IsMonthField(parts[2]) ->
                    Ordinal(DigitsVal(parts[1]), DigitsVal(parts[2]), 1)
              [] Len(parts) = 2 /\ IsMonthField(parts[1]) /\ IsYearField(parts[2]) ->
                    Ordinal(DigitsVal(parts[2]), DigitsVal(parts[1]), 1)
              [] /\ Len(parts) = 3
                 /\ IsYearField(parts[1]) /\ IsMonthField(parts[2]) /\ IsDayField(parts[3]) ->
                    DateOrNone(DigitsVal(parts[1]), DigitsVal(parts[2]), DayOfField(parts[3]))
              [] /\ Len(parts) = 3
                 /\ IsDayField(parts[1]) /\ IsMonthField(parts[2]) /\ IsYearField(parts[3]) ->
                    DateOrNone(DigitsVal(parts[3]), DigitsVal(parts[2]), DayOfField(parts[1]))
              [] OTHER -> NO_DATE
    IN  Fields(SplitAt(date_str, "-"))

present_keywords ==
    {Chars("present"), Chars("current"), Chars("ongoing"), Chars("till now"),
     Chars("today"), Chars("till present"), Chars("till date"), Chars("current role")}

no_date_keywords ==
    {Chars("no date"), Chars("n/a"), Chars("not available"), Chars("unknown"),
     Chars("--"), Chars("none")}

\* parse_date_safely (lines 450-490); the date strings of the model are
\* keywords, or digits and hyphens
parse_date_safely(date_str) ==
    LET Lowered(text, date_str_lower) ==
            IF \E kw \in present_keywords \cup no_date_keywords :
                   Contains(date_str_lower, kw)
            THEN NO_DATE
            ELSE Strptime(Strip(text))
        Text(text) == Lowered(text, Strip(Lower(text)))
    IN  IF ~PyTruthy(date_str) THEN NO_DATE ELSE Text(PyStrOf(date_str))

\* PeriodOf without the check of the duration
PeriodOfAnyDuration(exp, now) ==
    LET Period(start_date, end_date) ==
            IF \/ start_date = NO_DATE
               \/ start_date > now
               \/ end_date < start_date
            THEN <<>>
            ELSE << <<start_date, end_date>> >>
        Dates(start_date, parsed_end) ==
            Period(start_date, IF parsed_end = NO_DATE THEN now ELSE parsed_end)
    IN  IF exp.t /= "dict" THEN <<>>
        ELSE Dates(parse_date_safely(DictGet(exp, Chars("startDate"), PyNone)),
                   parse_date_safely(DictGet(exp, Chars("endDate"), PyNone)))

\* the period of one entry (lines 503-526), <<>> when the entry is skipped
PeriodOf(exp, now) ==
    LET Period(start_date, end_date) ==
            IF \/ start_date = NO_DATE
               \/ start_date > now
               \/ end_date < start_date
               \/ end_date - start_date < 30
               \/ end_date - start_date > 60 * 365
            THEN <<>>
            ELSE << <<start_date, end_date>> >>
        Dates(start_date, parsed_end) ==
            Period(start_date, IF parsed_end = NO_DATE THEN now ELSE parsed_end)
    IN  IF exp.t /= "dict" THEN <<>>
        ELSE Dates(parse_date_safely(DictGet(exp, Chars("startDate"), PyNone)),
                   parse_date_safely(DictGet(exp, Chars("endDate"), PyNone)))

RECURSIVE PeriodsOf(_, _)
PeriodsOf(entries, now) ==
    IF entries = <<>> THEN <<>>
    ELSE PeriodOf(Head(entries), now) \o PeriodsOf(Tail(entries), now)

\* periods.sort(key=start): stable, so a period goes after those that start
\* no later
RECURSIVE SortPeriods(_)
SortPeriods(periods) ==
    LET Insert(rest, p) ==
            SelectSeq(rest, LAMBDA q : q[1] <= p[1]) \o <<p>>
            \o SelectSeq(rest, LAMBDA q : q[1] > p[1])
    IN  IF periods = <<>> THEN <<>>
        ELSE Insert(SortPeriods(SubSeq(periods, 1, Len(periods) - 1)),
                    periods[Len(periods)])

\* MergePeriods appending every period, overlapping or not
MergePeriodsApart(merged, rest) == merged \o rest

\* the merge loop (lines 532-538)
RECURSIVE MergePeriods(_, _)
MergePeriods(merged, rest) ==
    LET Merge(current, last) ==
            IF current[1] <= last[2]
            THEN MergePeriods([merged EXCEPT ![Len(merged)] =
                                  <<last[1], Max(last[2], current[2])>>], Tail(rest))
            ELSE MergePeriods(Append(merged, current), Tail(rest))
    IN  IF rest = <<>> THEN merged ELSE Merge(Head(rest), merged[Len(merged)])

RECURSIVE TotalDays(_)
TotalDays(merged) ==
    IF merged = <<>> THEN 0
    ELSE (Head(merged)[2] - Head(merged)[1]) + TotalDays(Tail(merged))

\* calculate_experience_from_details (lines 493-546): <<years, months>>; now
\* is the day datetime.now() falls on
calculate_experience_from_details(experience_details, now) ==
    LET Total(total_days) == <<total_days \div 365, (total_days % 365) \div 30>>
        Periods(periods) ==
            IF periods = <<>> THEN <<0, 0>>
            ELSE Total(TotalDays(MergePeriods(<<Head(periods)>>, Tail(periods))))
    IN  IF ~PyTruthy(experience_details) \/ experience_details.t /= "list" THEN <<0, 0>>
        ELSE Periods(SortPeriods(PeriodsOf(experience_details.l, now)))

-----------------------------------------------------------------------------
(* json_parser.py: the schema normaliser *)

\* get_default_structure (lines 292-315)
get_default_structure(kind) ==
    IF kind = "Job Description"
    THEN PyDict(<<Chars("jobTitle"), Chars("requiredSkills"), Chars("minExperienceYears"),
                  Chars("requiredEducation"), Chars("preferredSkills"),
                  Chars("description"), Chars("responsibilities"), Chars("benefits")>>,
                <<PyStr(Chars("Not extracted")), PyList(<<>>), PyInt(0),
                  PyStr(Chars("Not specified")), PyList(<<>>), PyNone, PyList(<<>>),
                  PyList(<<>>)>>)
    ELSE PyDict(<<Chars("role"), Chars("totalYearsExperience"), Chars("experienceDetails"),
                  Chars("skills"), Chars("education"), Chars("certifications"),
                  Chars("summary")>>,
                <<PyStr(Chars("Not extracted")), PyInt(0), PyList(<<>>), PyList(<<>>),
                  PyList(<<>>), PyList(<<>>), PyStr(Chars("Error parsing this document"))>>)

\* int(float(str(val).replace(',', ''))) at lines 339 and 374: "value" with
\* the integer, "caught" for the ValueError the inner except handles,
\* "overflow" for the OverflowError of an infinity, which it does not handle
IntOfFloatOfStr(val) ==
    LET Truncated(f) ==
            IF ~f.ok \/ f.special = "nan" THEN [kind |-> "caught", n |-> 0]
            ELSE IF f.special = "inf" THEN [kind |-> "overflow", n |-> 0]
            ELSE [kind |-> "value", n |-> f.n]
    IN  Truncated(PyFloat(PyStr(SelectSeq(PyStrOf(val), LAMBDA c : c /= ","))))

\* a years field after lines 333-343 / 370-376
YearsField(record, key) ==
    LET Converted(int) == IF int.kind = "value" THEN PyInt(int.n) ELSE PyInt(0)
        Field(val) == IF val.t = "none" THEN PyInt(0) ELSE Converted(IntOfFloatOfStr(val))
    IN  Field(DictGet(record, key, PyNone))

\* the skills list of a resume after lines 349-356
NewSkills(skills) ==
    LET Named(kept) ==
            [i \in 1..Len(kept) |->
                IF kept[i].t = "dict" THEN kept[i]
                ELSE Dict1("name", PyStr(Strip(kept[i].s)))]
    IN  Named(SelectSeq(skills, LAMBDA skill :
                  \/ /\ skill.t = "dict"
                     /\ DictHas(skill, Chars("name"))
                     /\ PyTruthy(DictGet(skill, Chars("name"), PyNone))
                  \/ skill.t = "str" /\ Strip(skill.s) /= <<>>))

\* [str(s).strip() for s in skills if s and str(s).strip()] (lines 382-385, 391-394)
StrippedStrings(skills) ==
    LET Stripped(kept) == [i \in 1..Len(kept) |-> PyStr(Strip(PyStrOf(kept[i])))]
    IN  Stripped(SelectSeq(skills, LAMBDA v : PyTruthy(v) /\ Strip(PyStrOf(v)) /= <<>>))

\* d with d[key] made a list: kept if it is one, [] otherwise
EnsureList(d, key) ==
    IF DictHas(d, Chars(key)) /\ DictGet(d, Chars(key), PyNone).t = "list" THEN d
    ELSE DictSet(d, Chars(key), PyList(<<>>))

\* the years field of record is an infinity: int() raises OverflowError
YearsOverflow(record, key) ==
    LET Field(val) == val.t /= "none" /\ IntOfFloatOfStr(val).kind = "overflow"
    IN  Field(DictGet(record, key, PyNone))

\* validate_data_types (lines 318-401) on a dict.  The OverflowError of an
\* infinite years field reaches the outer except before anything is changed,
\* and the data is returned as it came.
validate_data_types(record, kind) ==
    LET Skills(d, skills) ==
            IF skills.t = "list" THEN DictSet(d, Chars("skills"), PyList(NewSkills(skills.l)))
            ELSE DictSet(d, Chars("skills"), PyList(<<>>))
        Resume(d) ==
            EnsureList(EnsureList(Skills(d, DictGet(d, Chars("skills"), PyNone)),
                                  "education"),
                       "experienceDetails")
        Strings(d, key, skills) ==
            IF skills.t = "list" THEN DictSet(d, Chars(key), PyList(StrippedStrings(skills.l)))
            ELSE DictSet(d, Chars(key), PyList(<<>>))
        Preferred(d) ==
            Strings(d, "preferredSkills", DictGet(d, Chars("preferredSkills"), PyNone))
        Required(d) ==
            Preferred(Strings(d, "requiredSkills",
                              DictGet(d, Chars("requiredSkills"), PyNone)))
    IN  IF kind = "Resume"
        THEN IF YearsOverflow(record, Chars("totalYearsExperience")) THEN record
             ELSE Resume(DictSet(record, Chars("totalYearsExperience"),
                                 YearsField(record, Chars("totalYearsExperience"))))
        ELSE IF YearsOverflow(record, Chars("minExperienceYears")) THEN record
             ELSE Required(DictSet(record, Chars("minExperienceYears"),
                                   YearsField(record, Chars("minExperienceYears"))))

\* required_fields (lines 426-429)
required_fields(kind) ==
    IF kind = "Job Description"
    THEN <<Chars("jobTitle"), Chars("requiredSkills"), Chars("minExperienceYears")>>
    ELSE <<Chars("role"), Chars("totalYearsExperience"), Chars("skills"), Chars("education")>>

\* defaults.update({k: v for k, v in data.items() if v is not None}), from item i on
RECURSIVE UpdateNotNone(_, _, _)
UpdateNotNone(defaults, record, i) ==
    IF i > Len(record.k) THEN defaults
    ELSE UpdateNotNone(IF record.l[i].t = "none" THEN defaults
                       ELSE DictSet(defaults, record.k[i], record.l[i]),
                       record, i + 1)

\* lines 426-438: the defaults fill in for a record that lacks a required field
WithDefaults(parsed, kind) ==
    LET Missing(fields) ==
            IF \E i \in 1..Len(fields) : DictGet(parsed, fields[i], PyNone).t = "none"
            THEN UpdateNotNone(get_default_structure(kind), parsed, 1)
            ELSE parsed
    IN  Missing(required_fields(kind))

\* parse_with_validation (lines 404-445)
parse_with_validation(text, kind) ==
    LET Parsed(parsed) ==
            IF parsed.t = "raise" THEN parsed
            ELSE IF ~PyTruthy(parsed) THEN get_default_structure(kind)
            ELSE validate_data_types(WithDefaults(parsed, kind), kind)
    IN  Parsed(clean_json_response(text))

\* the name the loop of lines 569-573 reads from a skill: a string, or the
\* AttributeError of a dict whose name has no lower()
DedupName(skill) ==
    LET Name(name) ==
            IF name.t = "str" THEN PyStr(Strip(Lower(name.s)))
            ELSE PyRaise("AttributeError")
    IN  IF skill.t = "dict" THEN Name(DictGet(skill, Chars("name"), PyStr(<<>>)))
        ELSE PyStr(Strip(Lower(PyStrOf(skill))))

\* unique_skills (lines 568-576): the names in first-seen order
RECURSIVE UniqueNames(_, _)
UniqueNames(names, seen) ==
    LET Seen(name) ==
            UniqueNames(Tail(names),
                        IF /\ name /= <<>>
                           /\ 1 < Len(name) /\ Len(name) < 50
                           /\ \A j \in 1..Len(seen) : seen[j] /= name
                        THEN Append(seen, name) ELSE seen)
    IN  IF names = <<>> THEN seen ELSE Seen(Head(names).s)

\* unique_skills (lines 582-588): the indices of the skills kept
RECURSIVE UniqueRequired(_, _, _)
UniqueRequired(skills, i, kept) ==
    LET Kept(skill_lower) ==
            UniqueRequired(skills, i + 1,
                           IF /\ skill_lower /= <<>>
                              /\ \A j \in 1..Len(kept) :
                                     Strip(Lower(PyStrOf(skills[kept[j]]))) /= skill_lower
                           THEN Append(kept, i) ELSE kept)
    IN  IF i > Len(skills) THEN kept ELSE Kept(Strip(Lower(PyStrOf(skills[i]))))

\* post_process_extraction (lines 551-592): the record, or the exception
post_process_extraction(record, kind, now) ==
    LET \* lines 566-578
        Unique(d, unique) ==
            DictSet(d, Chars("skills"),
                    PyList([i \in 1..Min(20, Len(unique)) |->
                               Dict1("name", PyStr(unique[i]))]))
        Names(d, names) ==
            IF \E i \in 1..Len(names) : names[i].t = "raise"
            THEN PyRaise("AttributeError")
            ELSE Unique(d, UniqueNames(names, <<>>))
        Items(d, items) == Names(d, [i \in 1..Len(items) |-> DedupName(items[i])])
        Skills(d, skills) ==
            IF ~Iterable(skills) THEN PyRaise("TypeError") ELSE Items(d, IterItems(skills))
        Deduplicated(d) == Skills(d, DictGet(d, Chars("skills"), PyList(<<>>)))
        \* lines 555-563
        Formatted(d, ym) ==
            IF ym[2] > 0
            THEN DictSet(d, Chars("totalExperienceFormatted"),
                         PyStr(NatChars(ym[1]) \o Chars(" years ")
                               \o NatChars(ym[2]) \o Chars(" months")))
            ELSE d
        Calculated(ym) ==
            Deduplicated(Formatted(DictSet(record, Chars("totalYearsExperience"),
                                           PyInt(ym[1])), ym))
        Details(exp_details) ==
            IF ~PyTruthy(exp_details) THEN Deduplicated(record)
            ELSE Calculated(calculate_experience_from_details(exp_details, now))
        \* lines 580-590
        Kept(items, kept) ==
            DictSet(record, Chars("requiredSkills"),
                    PyList([i \in 1..Min(25, Len(kept)) |-> items[kept[i]]]))
        Required(items) == Kept(items, UniqueRequired(items, 1, <<>>))
        RequiredSkills(skills) ==
            IF ~Iterable(skills) THEN PyRaise("TypeError") ELSE Required(IterItems(skills))
    IN  IF ~PyTruthy(record) THEN record
        ELSE IF kind = "Resume"
        THEN Details(DictGet(record, Chars("experienceDetails"), PyList(<<>>)))
        ELSE IF kind = "Job Description"
        THEN RequiredSkills(DictGet(record, Chars("requiredSkills"), PyList(<<>>)))
        ELSE record

-----------------------------------------------------------------------------
(* llm_extraction.py *)

\* validate_json_response (lines 92-109): the text between the first { and
\* the last } parses as it stands; the bare except takes every exception of
\* json.loads for a failure
validate_json_response(text) ==
    LET Braces(start, end) ==
            /\ text /= <<>>
            /\ start /= 0 /\ end /= 0 /\ start < end
            /\ json_loads(Slice(text, start, end)).ok
    IN  Braces(Find(text, "{"), RFind(text, "}"))

\* extract_structured_data_stable (lines 236-280) for the response the model
\* gives to every attempt: call_ollama strips it and hands it on only if
\* validate_json_response accepts it; the record is then parsed, validated
\* again and post-processed.  None when no attempt yields a record.
extract_structured_data_stable(response, kind, now) ==
    LET Parsed(parsed) ==
            IF parsed.t = "raise" THEN parsed
            ELSE IF ~PyTruthy(parsed) THEN PyNone
            ELSE post_process_extraction(validate_data_types(parsed, kind), kind, now)
        Stripped(stripped) ==
            IF stripped = <<>> \/ ~validate_json_response(stripped) THEN PyNone
            ELSE Parsed(parse_with_validation(stripped, kind))
    IN  Stripped(Strip(response))

-----------------------------------------------------------------------------
(* Bounds and inputs of the scoring engine *)

MaxYears == 50              \* largest year count tried

NegYears == 1               \* year counts below zero tried

MaxEducation == 2           \* longest education list tried

MaxCandidateSkills == 2     \* longest candidate skill list tried

MaxRequiredSkills == 4      \* longest required skill list tried

MaxMatchYears == 6          \* largest year count tried in calculate_match

MAX_SCORE == 100

\* all sequences over S of length at most n
RECURSIVE SeqsUpTo(_, _)
SeqsUpTo(S, n) ==
    IF n = 0 THEN {<<>>}
    ELSE LET shorter == SeqsUpTo(S, n - 1)
         IN  shorter \cup {Append(q, x) : q \in shorter, x \in S}

\* the sublists of master (order kept) of length at most n
SubLists(master, n) ==
    {SelectSeq([i \in 1..Len(master) |-> <<i, master[i]>>],
               LAMBDA p : p[1] \in I) : I \in {J \in SUBSET (1..Len(master)) : Cardinality(J) <= n}}

Seconds(pairs) == [i \in 1..Len(pairs) |-> pairs[i][2]]

\* a year field as the normaliser leaves it (an int of either sign), and as a
\* direct caller may pass it (None, a numeral, a word)
YearValues ==
    {PyInt(n) : n \in (-NegYears)..MaxYears}
        \cup {PyNone, PyStr(Chars("3")), PyStr(Chars("five"))}

ExperienceResumes ==
    {EmptyDict} \cup {Dict1("totalYearsExperience", v) : v \in YearValues}

ExperienceJDs ==
    {EmptyDict} \cup {Dict1("minExperienceYears", v) : v \in YearValues}

Degree(str) == Dict1("degree", PyStr(Chars(str)))

EducationEntries ==
    {Degree("B.Tech in Electronics"), Degree("Bachelor of Commerce"),
     Degree("Master of Business Administration (MBA)"), Degree("M.Tech"),
     Degree("PhD in Computer Science"), Degree("Diploma in IT"),
     Degree("High School"), Degree("Certificate"),
     Dict1("degree", PyNone), PyStr(Chars("Doctorate"))}

EducationResumes ==
    {EmptyDict, Dict1("education", PyStr(Chars("Bachelor")))}
        \cup {Dict1("education", PyList(l)) : l \in SeqsUpTo(EducationEntries, MaxEducation)}

EducationJDs ==
    {EmptyDict, Dict1("requiredEducation", PyNone)}
        \cup {Dict1("requiredEducation", PyStr(Chars(d))) :
                d \in {"Not specified", "not specified", "", "Bachelor Degree", "Master",
                       "PhD", "Diploma", "High School"}}

Skill(str) == Dict1("name", PyStr(Chars(str)))

CandidateSkillEntries ==
    {Skill("Python"), Skill("ReactJS"), Skill("Node.js"), Skill("  "),
     PyStr(Chars("PostgreSQL"))}

RequiredSkillMaster ==
    <<PyStr(Chars("Python")), PyStr(Chars(" ")), PyStr(Chars("React")),
      PyStr(Chars("")), PyStr(Chars("Java")), PyStr(Chars("Postgres")), PyNone>>

\* a candidate with three skills, each the variant of a required one
VariantSkills == <<Skill("python"), Skill("ReactJS"), PyStr(Chars("PostgreSQL"))>>

\* a candidate with several skills that resolve to one required skill, the
\* closest neither first nor alone
TiedSkills ==
    <<Skill("ReactJS"), Skill("react"), Skill("React"), Skill("PYTHON"), Skill("python")>>

SkillsResumes ==
    {EmptyDict, Dict1("skills", PyList(VariantSkills)), Dict1("skills", PyList(TiedSkills))}
        \cup {Dict1("skills", PyList(l)) :
                l \in SeqsUpTo(CandidateSkillEntries, MaxCandidateSkills)}

SkillsJDs ==
    {EmptyDict}
        \cup {Dict1("requiredSkills", PyList(Seconds(l))) :
                l \in SubLists(RequiredSkillMaster, MaxRequiredSkills)}

\* records as extract_structured_data_stable hands them to calculate_match
MatchYearValues == {PyInt(n) : n \in (-NegYears)..MaxMatchYears}

MatchEducation ==
    {PyList(<<>>), PyList(<<Degree("Bachelor of Commerce")>>),
     PyList(<<Degree("Diploma in IT"), Degree("M.Tech")>>)}

MatchRequiredEducation ==
    {PyStr(Chars("Not specified")), PyStr(Chars("Bachelor Degree")), PyStr(Chars("PhD"))}

MatchSkills ==
    {PyList(<<>>), PyList(<<Skill("python"), Skill("reactjs"), Skill("sql")>>)}

MatchRequiredSkills ==
    {PyList(SubSeq(<<PyStr(Chars("Python")), PyStr(Chars("React")),
                     PyStr(Chars("SQL")), PyStr(Chars("Java"))>>, 1, n)) : n \in 0..4}

MatchResumes ==
    {EmptyDict, PyNone}
        \cup {PyDict(<<Chars("totalYearsExperience"), Chars("education"), Chars("skills")>>,
                     <<y, e, k>>) :
                y \in MatchYearValues, e \in MatchEducation, k \in MatchSkills}

MatchJDs ==
    {EmptyDict, PyNone}
        \cup {PyDict(<<Chars("minExperienceYears"), Chars("requiredEducation"),
                       Chars("requiredSkills")>>, <<y, e, k>>) :
                y \in MatchYearValues, e \in MatchRequiredEducation,
                k \in MatchRequiredSkills}

-----------------------------------------------------------------------------
(* The state machine.  The initial states hold the arguments of one call;  *)
(* the action of a function applies it to them, once.                      *)

\* the variables of the components that are not called
ScoringIdle ==
    /\ resume_data = PyNone
    /\ jd_data = PyNone
    /\ score_in = 0
    /\ experience_result = PyNone
    /\ education_result = PyNone
    /\ skills_result = PyNone
    /\ match_result = PyNone

ParsingIdle ==
    /\ response_text = <<>>
    /\ doc_type = "Resume"
    /\ json_str = PyNone
    /\ data = PyNone
    /\ today = 1

ResolverIdle ==
    /\ match_candidate = PyNone
    /\ match_required = PyNone
    /\ skill_match = PyNone

AggregatorIdle ==
    /\ exp_entries = PyNone
    /\ exp_periods = <<>>
    /\ exp_total = <<0, 0>>

BatchIdle ==
    /\ batch_jd_ok = FALSE
    /\ batch_files = <<>>
    /\ batch_index = 0
    /\ batch_results = <<>>
    /\ batch_errors = <<>>

OllamaIdle ==
    /\ extraction_cache = <<>>
    /\ ollama_prompt = ""
    /\ ollama_max_retries = 0
    /\ ollama_attempt = 0
    /\ ollama_requests = 0
    /\ ollama_returned = PyNone
    /\ ollama_calls = 0

InitExperience ==
    /\ pc = "call"
    /\ resume_data \in ExperienceResumes
    /\ jd_data \in ExperienceJDs
    /\ score_in = 0
    /\ experience_result = PyNone
    /\ education_result = PyNone
    /\ skills_result = PyNone
    /\ match_result = PyNone
    /\ ParsingIdle
    /\ ResolverIdle
    /\ AggregatorIdle
    /\ BatchIdle
    /\ OllamaIdle

CheckExperienceMatch ==
    /\ pc = "call"
    /\ pc' = "check_experience_match"
    /\ experience_result' = check_experience_match(resume_data, jd_data)
    /\ UNCHANGED <<resume_data, jd_data, score_in, education_result, skills_result,
                   match_result, parsingVars, resolverVars,
                   aggregatorVars, batchVars, ollamaVars>>

InitEducation ==
    /\ pc = "call"
    /\ resume_data \in EducationResumes
    /\ jd_data \in EducationJDs
    /\ score_in = 0
    /\ experience_result = PyNone
    /\ education_result = PyNone
    /\ skills_result = PyNone
    /\ match_result = PyNone
    /\ ParsingIdle
    /\ ResolverIdle
    /\ AggregatorIdle
    /\ BatchIdle
    /\ OllamaIdle

CheckEducationMatch ==
    /\ pc = "call"
    /\ pc' = "check_education_match"
    /\ education_result' = check_education_match(resume_data, jd_data)
    /\ UNCHANGED <<resume_data, jd_data, score_in, experience_result, skills_result,
                   match_result, parsingVars, resolverVars,
                   aggregatorVars, batchVars, ollamaVars>>

InitSkills ==
    /\ pc = "call"
    /\ resume_data \in SkillsResumes
    /\ jd_data \in SkillsJDs
    /\ score_in = 0
    /\ experience_result = PyNone
    /\ education_result = PyNone
    /\ skills_result = PyNone
    /\ match_result = PyNone
    /\ ParsingIdle
    /\ ResolverIdle
    /\ AggregatorIdle
    /\ BatchIdle
    /\ OllamaIdle

CheckSkillsMatch ==
    /\ pc = "call"
    /\ pc' = "check_skills_match"
    /\ skills_result' = check_skills_match(resume_data, jd_data)
    /\ UNCHANGED <<resume_data, jd_data, score_in, experience_result, education_result,
                   match_result, parsingVars, resolverVars,
                   aggregatorVars, batchVars, ollamaVars>>

InitMatch ==
    /\ \/ /\ pc = "call"
          /\ resume_data \in MatchResumes
          /\ jd_data \in MatchJDs
          /\ score_in = 0
       \/ /\ pc = "call get_assessment"
          /\ resume_data = PyNone
          /\ jd_data = PyNone
          /\ score_in \in 0..MAX_SCORE
    /\ experience_result = PyNone
    /\ education_result = PyNone
    /\ skills_result = PyNone
    /\ match_result = PyNone
    /\ ParsingIdle
    /\ ResolverIdle
    /\ AggregatorIdle
    /\ BatchIdle
    /\ OllamaIdle

GetAssessment ==
    /\ pc = "call get_assessment"
    /\ pc' = "get_assessment"
    /\ match_result' = [NoMatch EXCEPT !.raised = FALSE, !.overallScore = score_in,
                                       !.assessment = get_assessment(score_in)]
    /\ UNCHANGED <<resume_data, jd_data, score_in, experience_result, education_result,
                   skills_result, parsingVars, resolverVars,
                   aggregatorVars, batchVars, ollamaVars>>

CalculateMatch ==
    /\ pc = "call"
    /\ pc' = "calculate_match"
    /\ match_result' = calculate_match(resume_data, jd_data)
    /\ UNCHANGED <<resume_data, jd_data, score_in, experience_result, education_result,
                   skills_result, parsingVars, resolverVars,
                   aggregatorVars, batchVars, ollamaVars>>

SpecExperience == InitExperience /\ [][CheckExperienceMatch]_vars

SpecEducation == InitEducation /\ [][CheckEducationMatch]_vars

SpecSkills == InitSkills /\ [][CheckSkillsMatch]_vars

SpecMatch == InitMatch /\ [][GetAssessment \/ CalculateMatch]_vars

\* the skills find_skill_match is called on: variants of one skill, skills of
\* different groups, a skill inside another, a blank and None
ResolverSkills ==
    {PyStr(Chars(str)) :
        str \in {"ReactJS", "React", "Python", "python ", "Java", "JavaScript", "JS",
                 "k8s", "Kubernetes", "Postgres", "PostgreSQL", "machine learning",
                 "learning", " "}}
        \cup {PyNone}

InitResolver ==
    /\ pc = "call"
    /\ match_candidate \in ResolverSkills
    /\ match_required \in ResolverSkills
    /\ skill_match = PyNone
    /\ ScoringIdle
    /\ ParsingIdle
    /\ AggregatorIdle
    /\ BatchIdle
    /\ OllamaIdle

FindSkillMatch ==
    /\ pc = "call"
    /\ pc' = "find_skill_match"
    /\ skill_match' = find_skill_match(match_candidate, match_required)
    /\ UNCHANGED <<match_candidate, match_required, scoringVars, parsingVars,
                   aggregatorVars, batchVars, ollamaVars>>

SpecResolver == InitResolver /\ [][FindSkillMatch]_vars

-----------------------------------------------------------------------------
(* Bounds and inputs of the experience aggregator *)

MaxEntries == 2             \* longest list of experience entries tried

\* an experience entry; "" leaves the date out
Entry(start, end) ==
    PyDict((IF start = "" THEN <<>> ELSE <<Chars("startDate")>>)
               \o (IF end = "" THEN <<>> ELSE <<Chars("endDate")>>),
           (IF start = "" THEN <<>> ELSE <<PyStr(Chars(start))>>)
               \o (IF end = "" THEN <<>> ELSE <<PyStr(Chars(end))>>))

\* entries that overlap, touch and lie apart, entries that each guard of
\* lines 509-524 skips, entries with a sentinel for a date, and one that is
\* no dict
ExperienceEntries ==
    {Entry("2018-01", "2020-01"), Entry("2019-01", "2021-01"),
     Entry("2020-01", "Present"), Entry("2023-03", "2023-09-15"),
     Entry("2022-06-01", "2022-06-15"), Entry("2030", "2031"),
     Entry("2021", "2019"), Entry("", "2020"), Entry("1950", "2024"),
     Entry("unknown", "2020"), Entry("2018", "n/a"), Entry("2016-05", ""),
     Entry("2020-01-01", "2020-12-26"), PyStr(Chars("2019-2020"))}

ExperienceLists ==
    {PyNone, PyStr(Chars("2018-2020"))}
        \cup {PyList(l) : l \in SeqsUpTo(ExperienceEntries, MaxEntries)}

-----------------------------------------------------------------------------
(* Bounds and inputs of the parser *)

MaxCut == 90                \* longest truncated response tried

MaxFields == 4              \* most fields a generated response holds

\* today's date in the runs
Todays == {Ordinal(2025, 3, 15)}

\* ",".join of the non-empty fragments, from fragment i on
RECURSIVE JoinFields(_, _)
JoinFields(fragments, i) ==
    IF i > Len(fragments) THEN <<>>
    ELSE LET rest == JoinFields(fragments, i + 1)
         IN  IF fragments[i] = <<>> THEN rest
             ELSE IF rest = <<>> THEN fragments[i]
             ELSE fragments[i] \o <<",">> \o rest

\* the JSON object text of the fragments, if no more than MaxFields are present
ObjectText(fragments) == <<"{">> \o JoinFields(fragments, 1) \o <<"}">>

FieldCount(fragments) == Cardinality({i \in 1..Len(fragments) : fragments[i] /= <<>>})

\* what a language model writes for each field of a resume; <<>> leaves the
\* field out
RoleTexts ==
    {<<>>, Chars("\"role\":\"Dev\""), Chars("\"role\":null"), Chars("\"role\":5")}

YearsTexts ==
    {<<>>, Chars("\"totalYearsExperience\":5"), Chars("\"totalYearsExperience\":\"1,200\""),
     Chars("\"totalYearsExperience\":-2"), Chars("\"totalYearsExperience\":\"five\"")}

SkillsTexts ==
    {<<>>, Chars("\"skills\":[\"Python\",{\"name\":\"SQL\"},\"python \",\" \",7]"),
     Chars("\"skills\":\"Python\""), Chars("\"skills\":[{\"name\":5}]")}

EducationTexts ==
    {<<>>, Chars("\"education\":[{\"degree\":\"MBA\"}]"), Chars("\"education\":\"MBA\"")}

DetailsTexts ==
    {<<>>,
     Chars("\"experienceDetails\":[{\"startDate\":\"2018\",\"endDate\":\"2020-07\"},{\"startDate\":\"2019-03\",\"endDate\":\"Present\"}]")}

ResumeTexts ==
    {ObjectText(f) : f \in {g \in RoleTexts \X YearsTexts \X SkillsTexts \X EducationTexts
                                   \X DetailsTexts : FieldCount(g) <= MaxFields}}

\* and for each field of a job description
JobTitleTexts == {<<>>, Chars("\"jobTitle\":\"Engineer\""), Chars("\"jobTitle\":null")}

RequiredSkillsTexts ==
    {<<>>, Chars("\"requiredSkills\":[\"Python\",\" \",\"python\",5,null,\"SQL \"]"),
     Chars("\"requiredSkills\":\"Python\"")}

MinYearsTexts ==
    {<<>>, Chars("\"minExperienceYears\":\"2\""), Chars("\"minExperienceYears\":null"),
     Chars("\"minExperienceYears\":-1")}

RequiredEducationTexts ==
    {<<>>, Chars("\"requiredEducation\":\"Bachelor\""), Chars("\"requiredEducation\":7")}

PreferredSkillsTexts == {<<>>, Chars("\"preferredSkills\":[\"Go\",\"\"]")}

JobTexts ==
    {ObjectText(f) : f \in {g \in JobTitleTexts \X RequiredSkillsTexts \X MinYearsTexts
                                   \X RequiredEducationTexts \X PreferredSkillsTexts :
                               FieldCount(g) <= MaxFields}}

\* well-formed objects, to be cut short
CompleteTexts ==
    {Chars("{\"role\":\"Dev\",\"skills\":[\"Python\",\"SQL\"],\"education\":[{\"degree\":\"MBA\",\"year\":2020},{\"degree\":\"BSc\"}],\"totalYearsExperience\":5}"),
     Chars("{\"jobTitle\":\"Eng, Sr\",\"requiredSkills\":[\"Python\"],\"meta\":{\"tags\":[1,[2]],\"x\":null},\"minExperienceYears\":2}")}

\* a response the token limit cut off after k characters
TruncatedTexts ==
    {SubSeq(t, 1, k) : t \in CompleteTexts, k \in 1..MaxCut}

\* responses that hold no object, or one beyond repair, or one in a code fence
OtherTexts ==
    {<<>>, Chars("Sorry, I cannot read this document."), Chars("}{"),
     Chars("{\"role\" \"Dev\"}"), Chars("{\"role\":\"Dev\",\"totalYearsExperience\":}"),
     Chars("{\"jobTitle\":\"Eng\",\"requiredSkills\":[\"Python\"}]"),
     Chars("{\"role\":\"Dev\"}} {\"skills\":[\"Go\"]}"),
     <<BACKTICK, BACKTICK, BACKTICK>> \o Chars("json\n{\"role\":\"Dev\",\"skills\":[\"Go\"],}\n")
         \o <<BACKTICK, BACKTICK, BACKTICK>>,
     Chars("Here it is: {'jobTitle': 'Eng', 'requiredSkills': ['Python'], 'minExperienceYears': None}")}

\* responses that nest arrays to the limit of json.loads and one beyond it,
\* closed, left open, and closed by the wrong closer
DeepText(n, closers) == Chars("{\"skills\":") \o Repeat("[", n) \o closers

DeepTexts ==
    UNION {{DeepText(n, Repeat("]", n) \o <<"}">>), DeepText(n, <<"}">>), DeepText(n, <<>>)} :
              n \in {RecursionLimit - 1, RecursionLimit}}

\* responses that list more skills than are kept, one of a single character,
\* one of 50 characters and one twice
LongListTexts ==
    {Chars("{\"skills\":[\"C\",\"xxxxxxxxxxxxxxxxxxxxxxxxxxxxxxxxxxxxxxxxxxxxxxxxxx\",\"Go\",\"go \",\"s1\",\"s2\",\"s3\",\"s4\",\"s5\",\"s6\",\"s7\",\"s8\",\"s9\",\"s10\",\"s11\",\"s12\",\"s13\",\"s14\",\"s15\",\"s16\",\"s17\",\"s18\",\"s19\",\"s20\",\"s21\"]}"),
     Chars("{\"requiredSkills\":[\"R\",\"Go\",\"go\",\"r1\",\"r2\",\"r3\",\"r4\",\"r5\",\"r6\",\"r7\",\"r8\",\"r9\",\"r10\",\"r11\",\"r12\",\"r13\",\"r14\",\"r15\",\"r16\",\"r17\",\"r18\",\"r19\",\"r20\",\"r21\",\"r22\",\"r23\",\"r24\",\"r25\",\"r26\"]}")}

\* valid objects with a grave accent inside a string, and with whitespace
\* around the object
QuotedTexts ==
    {Chars("{\"role\":\"Dev\",\"summary\":\"Runs ") \o <<BACKTICK>> \o Chars("make")
         \o <<BACKTICK>> \o Chars("\"}"),
     Chars(" {\"role\":\"Dev\",\"skills\":[{\"name\":\"Go\"}]} \n")}

Responses ==
    ResumeTexts \cup JobTexts \cup TruncatedTexts \cup OtherTexts \cup DeepTexts
        \cup LongListTexts \cup QuotedTexts

DocTypes == {"Resume", "Job Description"}

-----------------------------------------------------------------------------
(* The parser's state machine: one call of one of its entry points *)

InitParser ==
    /\ pc = "call"
    /\ response_text \in Responses
    /\ doc_type \in DocTypes
    /\ today \in Todays
    /\ json_str = PyNone
    /\ data = PyNone
    /\ ScoringIdle
    /\ ResolverIdle
    /\ AggregatorIdle
    /\ BatchIdle
    /\ OllamaIdle

\* clean_json_response(response_text)
CleanJsonResponse ==
    /\ pc = "call"
    /\ pc' = "clean_json_response"
    /\ json_str' = IF response_text = <<>> THEN PyNone
                   ELSE extract_json_string(response_text)
    /\ data' = clean_json_response(response_text)
    /\ UNCHANGED <<response_text, doc_type, today, scoringVars, resolverVars,
                 aggregatorVars, batchVars, ollamaVars>>

\* parse_with_validation(response_text, doc_type)
ParseWithValidation ==
    /\ pc = "call"
    /\ pc' = "parse_with_validation"
    /\ json_str' = IF response_text = <<>> THEN PyNone
                   ELSE extract_json_string(response_text)
    /\ data' = parse_with_validation(response_text, doc_type)
    /\ UNCHANGED <<response_text, doc_type, today, scoringVars, resolverVars,
                 aggregatorVars, batchVars, ollamaVars>>

\* extract_structured_data_stable, response_text being the model's answer
ExtractStructuredData ==
    /\ pc = "call"
    /\ pc' = "extract_structured_data_stable"
    /\ data' = extract_structured_data_stable(response_text, doc_type, today)
    /\ UNCHANGED <<response_text, doc_type, json_str, today, scoringVars, resolverVars,
                 aggregatorVars, batchVars, ollamaVars>>

SpecParser ==
    InitParser /\ [][CleanJsonResponse \/ ParseWithValidation \/ ExtractStructuredData]_vars

-----------------------------------------------------------------------------
(* The experience aggregator's state machine: one call *)

InitAggregator ==
    /\ pc = "call"
    /\ exp_entries \in ExperienceLists
    /\ today \in Todays
    /\ exp_periods = <<>>
    /\ exp_total = <<0, 0>>
    /\ response_text = <<>>
    /\ doc_type = "Resume"
    /\ json_str = PyNone
    /\ data = PyNone
    /\ ScoringIdle
    /\ ResolverIdle
    /\ BatchIdle
    /\ OllamaIdle

\* calculate_experience_from_details(exp_entries) on the day today
CalculateExperience ==
    /\ pc = "call"
    /\ pc' = "calculate_experience_from_details"
    /\ exp_periods' = IF exp_entries.t = "list"
                      THEN SortPeriods(PeriodsOf(exp_entries.l, today)) ELSE <<>>
    /\ exp_total' = calculate_experience_from_details(exp_entries, today)
    /\ UNCHANGED <<exp_entries, response_text, doc_type, json_str, data, today,
                   scoringVars, resolverVars, batchVars, ollamaVars>>

SpecAggregator == InitAggregator /\ [][CalculateExperience]_vars

-----------------------------------------------------------------------------
(* main.py: batch matching, one request *)

MaxFiles == 3               \* most files a batch holds

\* what a file of the batch yields: an error before it is scored (a format
\* that is not supported, no resume extracted, calculate_match raising), or
\* the overallScore of its report
FileOutcomes ==
    {[kind |-> k, overallScore |-> 0] : k \in {"unsupported", "not extracted"}}
        \cup {[kind |-> "scored", overallScore |-> n] : n \in {40, 58, 75}}

\* results.sort(key=..., reverse=True) (line 472): list.sort is stable, and
\* with reverse=True it still keeps entries of equal key in their order; each
\* entry of rest goes behind the entries of sorted whose score is not lower
RECURSIVE SortReversedTies(_, _)
SortReversedTies(sorted, rest) ==
    LET Placed(r, k) == SubSeq(sorted, 1, k) \o <<r>> \o SubSeq(sorted, k + 1, Len(sorted))
        Insert(r) ==
            Placed(r, Cardinality({i \in 1..Len(sorted) :
                                     sorted[i].overallScore > r.overallScore}))
    IN  IF rest = <<>> THEN sorted ELSE SortReversedTies(Insert(Head(rest)), Tail(rest))

RECURSIVE SortByScore(_, _)
SortByScore(sorted, rest) ==
    LET Placed(r, k) == SubSeq(sorted, 1, k) \o <<r>> \o SubSeq(sorted, k + 1, Len(sorted))
        Insert(r) ==
            Placed(r, Cardinality({i \in 1..Len(sorted) :
                                     sorted[i].overallScore >= r.overallScore}))
    IN  IF rest = <<>> THEN sorted ELSE SortByScore(Insert(Head(rest)), Tail(rest))

InitBatch ==
    /\ pc = "call"
    /\ batch_jd_ok \in BOOLEAN
    /\ batch_files \in SeqsUpTo(FileOutcomes, MaxFiles)
    /\ batch_index = 0
    /\ batch_results = <<>>
    /\ batch_errors = <<>>
    /\ ScoringIdle
    /\ ParsingIdle
    /\ ResolverIdle
    /\ AggregatorIdle
    /\ OllamaIdle

\* lines 389-398: no file, or no job description extracted: HTTP 400
BatchRejected ==
    /\ pc = "call"
    /\ batch_files = <<>> \/ ~batch_jd_ok
    /\ pc' = "batch_match 400"
    /\ UNCHANGED <<batch_jd_ok, batch_files, batch_index, batch_results, batch_errors,
                   scoringVars, parsingVars, resolverVars, aggregatorVars, ollamaVars>>

\* one pass of the loop of lines 403-466 over the next file
BatchFile ==
    /\ pc \in {"call", "batch_match loop"}
    /\ batch_jd_ok
    /\ batch_index < Len(batch_files)
    /\ pc' = "batch_match loop"
    /\ batch_index' = batch_index + 1
    /\ IF batch_files[batch_index + 1].kind = "scored"
       THEN /\ batch_results' =
                   Append(batch_results,
                          [filename |-> batch_index + 1,
                           overallScore |-> batch_files[batch_index + 1].overallScore])
            /\ UNCHANGED batch_errors
       ELSE /\ batch_errors' = Append(batch_errors, batch_index + 1)
            /\ UNCHANGED batch_results
    /\ UNCHANGED <<batch_jd_ok, batch_files,
                   scoringVars, parsingVars, resolverVars, aggregatorVars, ollamaVars>>

\* lines 468-472 and the return: no result is HTTP 400, else the results are
\* sorted by score
BatchRanked ==
    /\ pc = "batch_match loop"
    /\ batch_index = Len(batch_files)
    /\ pc' = IF batch_results = <<>> THEN "batch_match 400" ELSE "batch_match"
    /\ batch_results' = SortByScore(<<>>, batch_results)
    /\ UNCHANGED <<batch_jd_ok, batch_files, batch_index, batch_errors,
                   scoringVars, parsingVars, resolverVars, aggregatorVars, ollamaVars>>

SpecBatch == InitBatch /\ [][BatchRejected \/ BatchFile \/ BatchRanked]_vars

-----------------------------------------------------------------------------
(* llm_extraction.py: call_ollama and its cache, over several calls, each  *)
(* with validate_func = validate_json_response                             *)

MaxCalls == 3               \* most calls of call_ollama in a run

MaxRetries == 2             \* largest max_retries a call is given

\* the prompts of the calls and their md5 digests; two prompts share one
Prompts == {"resume A", "resume B", "resume C"}

PromptHash(prompt) == IF prompt = "resume B" THEN "digest 2" ELSE "digest 1"

\* the values of "response" in the HTTP 200 answers of the collaborator
OllamaTexts ==
    {<<>>, Chars("  \n"), Chars("{\"role\":\"Dev\"}"),
     Chars(" {\"skills\":[\"Go\"]} \n"), Chars("I cannot read this."),
     Chars("{\"role\":\"Dev\",")}

\* what one request yields: an answer of status 200, another status, or an
\* exception of requests.post
OllamaAnswers ==
    {[kind |-> "200", response |-> t] : t \in OllamaTexts}
        \cup {[kind |-> k, response |-> <<>>] :
                 k \in {"500", "ConnectionError", "Timeout"}}

\* AttemptResult taking every response that is not empty for valid
AttemptResultUnvalidated(answer, attempt, max_retries) ==
    LET Last == attempt = max_retries - 1
        Text(stripped) ==
            IF stripped = <<>>
            THEN [kind |-> "continue", value |-> PyNone, cached |-> FALSE]
            ELSE [kind |-> "return", value |-> PyStr(stripped), cached |-> TRUE]
    IN  IF answer.kind = "200" THEN Text(Strip(answer.response))
        ELSE IF answer.kind = "ConnectionError" /\ Last
             THEN [kind |-> "return", value |-> PyRaise("Exception"), cached |-> FALSE]
        ELSE [kind |-> "continue", value |-> PyNone, cached |-> FALSE]

\* one pass of the loop of call_ollama (lines 42-88) on the answer to its
\* request: the function returns a value (cached or not), or goes on
AttemptResult(answer, attempt, max_retries) ==
    LET Last == attempt = max_retries - 1
        Text(stripped) ==
            IF stripped = <<>>
            THEN [kind |-> "continue", value |-> PyNone, cached |-> FALSE]
            ELSE IF ~validate_json_response(stripped)
                 THEN IF ~Last THEN [kind |-> "continue", value |-> PyNone, cached |-> FALSE]
                      ELSE [kind |-> "return", value |-> PyNone, cached |-> FALSE]
            ELSE [kind |-> "return", value |-> PyStr(stripped), cached |-> TRUE]
    IN  IF answer.kind = "200" THEN Text(Strip(answer.response))
        ELSE IF answer.kind = "ConnectionError" /\ Last
             THEN [kind |-> "return", value |-> PyRaise("Exception"), cached |-> FALSE]
        ELSE [kind |-> "continue", value |-> PyNone, cached |-> FALSE]

InitOllama ==
    /\ pc = "call"
    /\ extraction_cache = <<>>
    /\ ollama_prompt = ""
    /\ ollama_max_retries = 0
    /\ ollama_attempt = 0
    /\ ollama_requests = 0
    /\ ollama_returned = PyNone
    /\ ollama_calls = 0
    /\ ScoringIdle
    /\ ParsingIdle
    /\ ResolverIdle
    /\ AggregatorIdle
    /\ BatchIdle

\* call_ollama(prompt, max_retries, validate_json_response) up to its first
\* request (lines 32-42): the cached response is returned, or None when no
\* attempt is to be made, or the loop is entered
CallOllama ==
    /\ pc = "call"
    /\ ollama_calls < MaxCalls
    /\ ollama_calls' = ollama_calls + 1
    /\ ollama_prompt' \in Prompts
    /\ ollama_max_retries' \in 0..MaxRetries
    /\ ollama_attempt' = 0
    /\ ollama_requests' = 0
    /\ IF PromptHash(ollama_prompt') \in DOMAIN extraction_cache
       THEN /\ ollama_returned' = PyStr(extraction_cache[PromptHash(ollama_prompt')])
            /\ pc' = "call"
       ELSE IF ollama_max_retries' = 0
       THEN /\ ollama_returned' = PyNone
            /\ pc' = "call"
       ELSE /\ ollama_returned' = PyNone
            /\ pc' = "call_ollama"
    /\ UNCHANGED <<extraction_cache, scoringVars, parsingVars, resolverVars,
                   aggregatorVars, batchVars>>

\* one attempt of the loop: the request, its answer, and what follows
OllamaAttempt ==
    /\ pc = "call_ollama"
    /\ \E answer \in OllamaAnswers :
          LET result == AttemptResult(answer, ollama_attempt, ollama_max_retries)
              exhausted == ollama_attempt + 1 >= ollama_max_retries
          IN  /\ ollama_requests' = ollama_requests + 1
              /\ ollama_attempt' = ollama_attempt + 1
              /\ pc' = IF result.kind = "return" \/ exhausted THEN "call" ELSE "call_ollama"
              /\ ollama_returned' = result.value
              /\ extraction_cache' =
                     IF result.cached
                     THEN [h \in DOMAIN extraction_cache \cup {PromptHash(ollama_prompt)} |->
                              IF h = PromptHash(ollama_prompt) THEN result.value.s
                              ELSE extraction_cache[h]]
                     ELSE extraction_cache
    /\ UNCHANGED <<ollama_prompt, ollama_max_retries, ollama_calls, scoringVars,
                   parsingVars, resolverVars, aggregatorVars, batchVars>>

SpecOllama == InitOllama /\ [][CallOllama \/ OllamaAttempt]_vars

-----------------------------------------------------------------------------
(* Properties of the parser *)

\* the openers of s that nothing closes, innermost last, and whether s ends
\* inside a string literal; i is the index read next
RECURSIVE OpenState(_, _, _, _)
OpenState(s, i, in_string, stack) ==
    IF i > Len(s) THEN [stack |-> stack, in_string |-> in_string]
    ELSE IF in_string
         THEN IF s[i] = "\\" THEN OpenState(s, i + 2, TRUE, stack)
              ELSE OpenState(s, i + 1, s[i] /= "\"", stack)
    ELSE IF s[i] = "\"" THEN OpenState(s, i + 1, TRUE, stack)
    ELSE IF s[i] \in {"{", "["} THEN OpenState(s, i + 1, FALSE, Append(stack, s[i]))
    ELSE IF s[i] \in {"}", "]"} /\ stack /= <<>>
         THEN OpenState(s, i + 1, FALSE, SubSeq(stack, 1, Len(stack) - 1))
    ELSE OpenState(s, i + 1, FALSE, stack)

\* the closers of a stack of openers, innermost first
Closers(stack) ==
    [i \in 1..Len(stack) |-> IF stack[Len(stack) + 1 - i] = "{" THEN "}" ELSE "]"]

\* text is a well-formed JSON object cut off outside any string, with braces
\* and brackets alone left open: closing them in nesting order gives an
\* object that json.loads parses
CutOutsideString(text) ==
    LET st == OpenState(text, 1, FALSE, <<>>)
    IN  /\ text /= <<>> /\ Head(text) = "{"
        /\ ~st.in_string
        /\ st.stack /= <<>>
        /\ json_loads(text \o Closers(st.stack)).ok

\* C1 (as claimed): for every well-formed JSON object cut off outside any
\* string literal, extract_json_string followed by the three tiers of
\* try_parse_json yields text that parses strictly, so clean_json_response
\* returns an object.
C1_TruncationIsRecovered ==
    (pc = "clean_json_response" /\ CutOutsideString(response_text)) =>
        /\ json_str /= PyNone
        /\ data.t = "dict"

\* d[key] is present and of one of the types
FieldIs(d, key, types) ==
    /\ d.t = "dict"
    /\ DictHas(d, Chars(key))
    /\ DictGet(d, Chars(key), PyNone).t \in types

\* C2 (as claimed): whatever object the response holds, and for either schema,
\* the normalisation (parse_with_validation, validate_data_types,
\* post_process_extraction) never raises and returns a record holding every
\* field of the schema with a value of its declared type.
C2_NormalizerIsTotal ==
    (pc = "extract_structured_data_stable" /\ data /= PyNone) =>
        /\ data.t /= "raise"
        /\ doc_type = "Resume" =>
              /\ FieldIs(data, "role", {"str"})
              /\ FieldIs(data, "totalYearsExperience", {"int"})
              /\ FieldIs(data, "experienceDetails", {"list"})
              /\ FieldIs(data, "skills", {"list"})
              /\ FieldIs(data, "education", {"list"})
              /\ FieldIs(data, "certifications", {"list"})
              /\ FieldIs(data, "summary", {"str"})
        /\ doc_type = "Job Description" =>
              /\ FieldIs(data, "jobTitle", {"str"})
              /\ FieldIs(data, "minExperienceYears", {"int"})
              /\ FieldIs(data, "requiredEducation", {"str"})
              /\ FieldIs(data, "requiredSkills", {"list"})
              /\ FieldIs(data, "preferredSkills", {"list"})

\* brace extraction fails on the text, or it succeeds and none of the three
\* tiers parses what it returns
Unparseable(text) ==
    \/ text = <<>>
    \/ extract_json_string(text) = PyNone
    \/ LET extracted == extract_json_string(text).s
       IN  /\ ~json_loads(extracted).ok
           /\ ~json_loads(fix_json_string(extracted)).ok
           /\ ~json_loads(aggressive_json_recovery(extracted)).ok

\* C3: for a response on which brace extraction fails or all three tiers
\* fail, parse_with_validation raises nothing and returns exactly the default
\* record of the requested schema, so no field comes from the response.
C3_UnparseableGivesDefault ==
    (pc = "parse_with_validation" /\ Unparseable(response_text)) =>
        /\ data.t = "dict"
        /\ data = get_default_structure(doc_type)

-----------------------------------------------------------------------------
(* Properties of the experience aggregator *)

\* the entries of the call, none when the argument is no list
EntryList == IF exp_entries.t = "list" THEN exp_entries.l ELSE <<>>

\* the start of an entry and its end, today when the entry gives none
StartOf(e) == parse_date_safely(DictGet(e, Chars("startDate"), PyNone))

EndOf(e) ==
    LET end == parse_date_safely(DictGet(e, Chars("endDate"), PyNone))
    IN  IF end = NO_DATE THEN today ELSE end

\* the entry is none of those to discard: start missing or unparseable,
\* start in the future, end before start, duration under 30 days or over 60
\* years
Qualifies(e) ==
    /\ e.t = "dict"
    /\ StartOf(e) /= NO_DATE
    /\ StartOf(e) <= today
    /\ StartOf(e) <= EndOf(e)
    /\ EndOf(e) - StartOf(e) >= 30
    /\ EndOf(e) - StartOf(e) <= 60 * 365

\* C15: every period that enters the total has start <= end, a duration of
\* 30 days to 60 years and a start not after today; the periods are those of
\* the entries that qualify, and the total is the total of those entries
\* alone, so a skipped entry changes nothing.
C15_OnlyValidPeriodsCount ==
    (pc = "calculate_experience_from_details" /\ exp_entries.t = "list") =>
        /\ \A i \in 1..Len(exp_periods) :
               /\ exp_periods[i][1] <= exp_periods[i][2]
               /\ exp_periods[i][2] - exp_periods[i][1] >= 30
               /\ exp_periods[i][2] - exp_periods[i][1] <= 60 * 365
               /\ exp_periods[i][1] <= today
        /\ Len(exp_periods) = Cardinality({i \in 1..Len(EntryList) : Qualifies(EntryList[i])})
        /\ exp_total =
               calculate_experience_from_details(PyList(SelectSeq(EntryList, Qualifies)), today)

\* an entry that counts next to one that is skipped
C15_Witness ==
    /\ pc = "calculate_experience_from_details"
    /\ Len(EntryList) = 2
    /\ Qualifies(EntryList[1])
    /\ ~Qualifies(EntryList[2])
    /\ EntryList[2].t = "dict"
    /\ Len(exp_periods) = 1
    /\ exp_total[1] >= 1

\* the days the periods cover together
UnionDays ==
    Cardinality(UNION {exp_periods[i][1]..(exp_periods[i][2] - 1) : i \in 1..Len(exp_periods)})

\* the lists that hold the entries of l in another order
Reorderings(l) ==
    {[i \in 1..Len(l) |-> l[f[i]]] :
        f \in {g \in [1..Len(l) -> 1..Len(l)] :
                  \A i, j \in 1..Len(l) : g[i] = g[j] => i = j}}

\* C16: the total is that of the days the surviving periods cover together,
\* so overlapping and adjacent periods are counted once; it is the same for
\* every order of the entries and with any entry given twice.
C16_UnionIsCountedOnce ==
    (pc = "calculate_experience_from_details" /\ exp_entries.t = "list") =>
        /\ exp_total = <<UnionDays \div 365, (UnionDays % 365) \div 30>>
        /\ \A l \in Reorderings(EntryList) :
               calculate_experience_from_details(PyList(l), today) = exp_total
        /\ \A i \in 1..Len(EntryList) :
               calculate_experience_from_details(PyList(Append(EntryList, EntryList[i])),
                                                 today) = exp_total

\* 2018-01 to 2020-01 with 2019-01 to 2021-01: three years, not four
C16_Witness ==
    /\ pc = "calculate_experience_from_details"
    /\ exp_periods = << <<Ordinal(2018, 1, 1), Ordinal(2020, 1, 1)>>,
                        <<Ordinal(2019, 1, 1), Ordinal(2021, 1, 1)>> >>
    /\ exp_total = <<3, 0>>

\* the date the entry gives under key names a no-date sentinel
IsNoDate(e, key) ==
    LET date_str == DictGet(e, Chars(key), PyNone)
    IN  /\ date_str.t = "str"
        /\ \E kw \in no_date_keywords : Contains(Strip(Lower(date_str.s)), kw)

\* C17 (as claimed): an entry whose start or end is a no-date sentinel is
\* discarded whole and adds nothing to the total; an end that is a present
\* sentinel stands for today.
C17_NoDateDiscardsEntry ==
    (pc = "calculate_experience_from_details" /\ exp_entries.t = "list") =>
        exp_total =
            calculate_experience_from_details(
                PyList(SelectSeq(EntryList,
                                 LAMBDA e : ~(e.t = "dict" /\ (IsNoDate(e, "startDate")
                                                               \/ IsNoDate(e, "endDate"))))),
                today)

-----------------------------------------------------------------------------
(* Properties of the scoring engine *)

\* the integer a record holds under key; only used where IsIntField holds
IsIntField(d, key) == d.t = "dict" /\ DictGet(d, Chars(key), PyNone).t = "int"

IntField(d, key) == DictGet(d, Chars(key), PyNone).n

\* C4: every report calculate_match returns has an overallScore equal to the
\* sum of its three sub-scores, with experience in 0..35, education in 0..25,
\* skills in 0..40 and so the overall score in 0..100.
C4_OverallIsBoundedSum ==
    (pc = "calculate_match" /\ ~match_result.raised) =>
        LET sub == match_result.sectionScores
        IN  /\ match_result.overallScore = sub[1] + sub[2] + sub[3]
            /\ sub[1] \in 0..35
            /\ sub[2] \in 0..25
            /\ sub[3] \in 0..40
            /\ match_result.overallScore \in 0..100

\* a report with the candidate above the requirement in experience and
\* partial credit in skills
C4_Witness ==
    /\ pc = "calculate_match"
    /\ ~match_result.raised
    /\ IntField(resume_data, "totalYearsExperience") > IntField(jd_data, "minExperienceYears")
    /\ IntField(jd_data, "minExperienceYears") > 0
    /\ match_result.sectionScores[3] \in 1..39

\* the label the threshold table gives a score
LabelOf(s) ==
    IF s >= 90 THEN "Excellent Match"
    ELSE IF s >= 75 THEN "Great Match"
    ELSE IF s >= 60 THEN "Good Match"
    ELSE IF s >= 40 THEN "Moderate Match"
    ELSE "Poor Match"

\* C5: the assessment of a score in 0..100 is the label of the highest
\* threshold not above it (90 excellent, 75 great, 60 good, 40 moderate, else
\* poor), for get_assessment called alone and inside calculate_match; the
\* report with sub-scores 35 + 25 + 30 is labelled excellent.
C5_AssessmentByThreshold ==
    (pc \in {"get_assessment", "calculate_match"} /\ ~match_result.raised) =>
        /\ match_result.assessment = LabelOf(match_result.overallScore)
        /\ match_result.sectionScores = <<35, 25, 30>> =>
               match_result.assessment = "Excellent Match"

\* the end-to-end case: 6 years against 5, bachelor against bachelor, 3 of 4
\* required skills
C5_Witness ==
    /\ pc = "calculate_match"
    /\ ~match_result.raised
    /\ match_result.sectionScores = <<35, 25, 30>>
    /\ match_result.overallScore = 90
    /\ match_result.assessment = "Excellent Match"

\* C6 (as claimed): whenever minExperienceYears is 0, check_experience_match
\* returns score 35 and met = TRUE, whatever the candidate's years are.
C6_ZeroRequirementIsMet ==
    (/\ pc = "check_experience_match"
     /\ IsIntField(jd_data, "minExperienceYears")
     /\ IntField(jd_data, "minExperienceYears") = 0
     /\ IsIntField(resume_data, "totalYearsExperience")) =>
        /\ experience_result.score = 35
        /\ experience_result.met

\* C7 (as claimed): with required > 0, a candidate below the requirement
\* scores floor(candidate/required * 35), raised to 1 only if candidate > 0,
\* with percentage floor(candidate/required * 100) and met = FALSE; a
\* candidate at or above it scores 35 with met = TRUE.
C7_ProportionalExperience ==
    (/\ pc = "check_experience_match"
     /\ IsIntField(jd_data, "minExperienceYears")
     /\ IsIntField(resume_data, "totalYearsExperience")
     /\ IntField(jd_data, "minExperienceYears") > 0
     /\ IntField(resume_data, "totalYearsExperience") >= 0) =>
        LET c == IntField(resume_data, "totalYearsExperience")
            r == IntField(jd_data, "minExperienceYears")
        IN  IF c < r
            THEN /\ experience_result.score =
                        (IF c > 0 THEN Max(1, (c * 35) \div r) ELSE 0)
                 /\ experience_result.percentage = (c * 100) \div r
                 /\ ~experience_result.met
            ELSE /\ experience_result.score = 35
                 /\ experience_result.met

\* the hierarchy level of a degree string: the highest level of any key of
\* the hierarchy it contains, 0 when it contains none
LevelOfDegree(degree) ==
    IF ~PyTruthy(degree) THEN 0
    ELSE LET text == Lower(PyStrOf(degree))
             levels == {EDUCATION_HIERARCHY[i][2] : i \in
                           {j \in 1..Len(EDUCATION_HIERARCHY) :
                               Contains(text, EDUCATION_HIERARCHY[j][1])}}
         IN  IF levels = {} THEN 0 ELSE CHOOSE m \in levels : \A n \in levels : m >= n

\* the education entries of the resume being scored
EducationList ==
    LET e == DictGet(resume_data, Chars("education"), PyList(<<>>))
    IN  IF e.t = "list" THEN e.l ELSE <<>>

\* the highest level among the resume's education entries, whatever their order
HighestLevel ==
    LET levels == {LevelOfDegree(EntryDegree(EducationList[i])) : i \in 1..Len(EducationList)}
    IN  IF levels = {} THEN 0 ELSE CHOOSE m \in levels : \A n \in levels : m >= n

RequiredLevel == LevelOfDegree(DictGet(jd_data, Chars("requiredEducation"), NOT_SPECIFIED))

\* C8: the candidate's level is the highest level among all education
\* entries, in any order; with the required level 0 or the candidate at or
\* above it the score is 25 and met = TRUE, and isOverqualified holds exactly
\* when the candidate's level is strictly above a required level > 0.
C8_HighestEducationCounts ==
    pc = "check_education_match" =>
        /\ LevelOfDegree(education_result.candidateDegree) = HighestLevel
        /\ (RequiredLevel = 0 \/ HighestLevel >= RequiredLevel) =>
               (education_result.score = 25 /\ education_result.met)
        /\ education_result.isOverqualified <=>
               (HighestLevel > RequiredLevel /\ RequiredLevel > 0)
        /\ education_result.met <=> HighestLevel >= RequiredLevel

\* two entries with the lower one first, the higher one above the requirement
C8_Witness ==
    /\ pc = "check_education_match"
    /\ Len(EducationList) = 2
    /\ LevelOfDegree(EntryDegree(EducationList[1])) > 0
    /\ LevelOfDegree(EntryDegree(EducationList[1])) < RequiredLevel
    /\ LevelOfDegree(EntryDegree(EducationList[2])) > RequiredLevel
    /\ education_result.isOverqualified
    /\ education_result.score = 25

\* C9 (as claimed): with a required level > 0 and the candidate's highest
\* level below it, the score is floor(candidate/required * 25), raised to 1
\* only if the candidate's level is > 0, and met = FALSE.
C9_ProportionalEducation ==
    (pc = "check_education_match" /\ RequiredLevel > 0 /\ HighestLevel < RequiredLevel) =>
        /\ education_result.score =
               (IF HighestLevel > 0 THEN Max(1, (HighestLevel * 25) \div RequiredLevel) ELSE 0)
        /\ ~education_result.met

\* the requirement's skill list, empty when the key is absent
RequiredSkillList ==
    LET r == DictGet(jd_data, Chars("requiredSkills"), PyList(<<>>))
    IN  IF r.t = "list" THEN r.l ELSE <<>>

\* every required skill is a string of whitespace (or there is none)
OnlyBlankRequired ==
    \A i \in 1..Len(RequiredSkillList) :
        LET e == RequiredSkillList[i]
        IN  e.t = "str" /\ \A j \in 1..Len(e.s) : IsSpace(e.s[j])

\* C10: with requiredSkills empty, or holding blank entries only,
\* check_skills_match returns score 40, met = TRUE and no missing skill, for
\* every candidate skill list.
C10_NoRequiredSkillsFullCredit ==
    (pc = "check_skills_match" /\ OnlyBlankRequired) =>
        /\ ~skills_result.raised
        /\ skills_result.score = 40
        /\ skills_result.met
        /\ skills_result.missingSkills = <<>>

\* a requirement of two blank entries against a candidate with skills
C10_Witness ==
    /\ pc = "check_skills_match"
    /\ Len(RequiredSkillList) = 2
    /\ OnlyBlankRequired
    /\ skills_result.allCandidateSkills /= <<>>
    /\ skills_result.score = 40

\* the required skills check_skills_match resolves: the non-blank entries
RequiredNames == RequiredSkillNames(PyList(RequiredSkillList))

\* how many required skills some skill of the candidate resolves to
MatchedCount ==
    Cardinality({i \in 1..Len(RequiredNames) :
        \E j \in 1..Len(skills_result.allCandidateSkills) :
            find_skill_match(PyStr(skills_result.allCandidateSkills[j]),
                             PyStr(RequiredNames[i])).is_match})

\* C11: for a non-empty required-skills list, check_skills_match scores
\* floor(matched/required * 40), raised to 1 when a required skill matched
\* and 0 when none did, and met holds exactly when
\* floor(matched/required * 100) >= 50; 3 of 4 matched gives 30.
C11_ProportionalSkills ==
    (pc = "check_skills_match" /\ RequiredNames /= <<>>) =>
        /\ ~skills_result.raised
        /\ skills_result.score =
               (IF MatchedCount = 0 THEN 0
                ELSE Max(1, (MatchedCount * 40) \div Len(RequiredNames)))
        /\ skills_result.met <=> (MatchedCount * 100) \div Len(RequiredNames) >= 50
        /\ (MatchedCount = 3 /\ Len(RequiredNames) = 4) => skills_result.score = 30

\* three of four required skills matched
C11_Witness ==
    /\ pc = "check_skills_match"
    /\ Len(RequiredNames) = 4
    /\ MatchedCount = 3
    /\ Len(skills_result.missingSkills) = 1
    /\ skills_result.score = 30
    /\ skills_result.met

\* C12 (as claimed): find_skill_match("ReactJS", "React") is a match of the
\* canonical-group kind with confidence 0.95, the group being the one the
\* alias tables give both skills; find_skill_match("Python", "Java") is no
\* match, with confidence 0.
C12_ReactResolvesByGroup ==
    pc = "find_skill_match" =>
        /\ (match_candidate = PyStr(Chars("ReactJS")) /\ match_required = PyStr(Chars("React")))
               => /\ CanonicalGroup(match_candidate) = CanonicalGroup(match_required)
                  /\ skill_match = [is_match |-> TRUE, type |-> "analogy",
                                     confidence |-> <<95, 100>>]
        /\ (match_candidate = PyStr(Chars("Python")) /\ match_required = PyStr(Chars("Java")))
               => (~skill_match.is_match /\ skill_match.confidence = <<0, 1>>)

\* the result the four strategies give in their order: exact, canonical
\* group, fuzzy, substring
ResolvedInOrder(cand, req) ==
    LET c == normalize_skill(cand)
        r == normalize_skill(req)
    IN  IF c = <<>> \/ r = <<>> THEN <<FALSE, "invalid", <<0, 1>> >>
        ELSE IF c = r THEN <<TRUE, "exact", <<1, 1>> >>
        ELSE IF CanonicalGroup(cand) /= <<>> /\ CanonicalGroup(cand) = CanonicalGroup(req)
             THEN <<TRUE, "analogy", <<95, 100>> >>
        ELSE IF ConfAtLeast(Ratio(c, r), <<70, 100>>) THEN <<TRUE, "fuzzy", Ratio(c, r)>>
        ELSE IF Len(c) > 3 /\ Len(r) > 3 /\ (Contains(c, r) \/ Contains(r, c))
             THEN <<TRUE, "substring", <<88, 100>> >>
        ELSE <<FALSE, "no_match", <<0, 1>> >>

\* C13 (as claimed): find_skill_match returns the first strategy that
\* succeeds in the order exact (1.0), canonical group (0.95, both skills in
\* the same group of the alias tables), fuzzy (the ratio, from 0.70 on),
\* substring (0.88, both longer than 3); anything else is no match with
\* confidence 0.
C13_FirstStrategyWins ==
    pc = "find_skill_match" =>
        LET expected == ResolvedInOrder(match_candidate, match_required)
        IN  /\ skill_match.is_match = expected[1]
            /\ skill_match.is_match => skill_match.type = expected[2]
            /\ skill_match.confidence = expected[3]

\* the positive results find_skill_match gives on the skills of the runs
PositiveResults ==
    {o \in {find_skill_match(c, r) : c \in ResolverSkills, r \in ResolverSkills} :
        o.is_match}

\* the priority of a kind of match, the highest first
Priority(type) ==
    CASE type = "exact" -> 4 [] type = "analogy" -> 3 [] type = "fuzzy" -> 2
      [] type = "substring" -> 1 [] OTHER -> 0

\* C14 (as claimed): every confidence lies in [0, 1], and a positive result
\* of a kind of higher priority (exact > canonical group > fuzzy > substring)
\* never has a lower confidence than a positive result of a kind of lower
\* priority.
C14_ConfidenceFollowsPriority ==
    pc = "find_skill_match" =>
        /\ ConfAtLeast(skill_match.confidence, <<0, 1>>)
        /\ ConfAtLeast(<<1, 1>>, skill_match.confidence)
        /\ skill_match.is_match =>
               \A o \in PositiveResults :
                   Priority(skill_match.type) > Priority(o.type) =>
                       ConfAtLeast(skill_match.confidence, o.confidence)

-----------------------------------------------------------------------------
(* Properties of the normalizer *)

\* the record as normalization leaves it, before post-processing
Normalized ==
    validate_data_types(parse_with_validation(Strip(response_text), doc_type), doc_type)

\* the field of the record that lists its skills, and the most it may hold
SkillField == IF doc_type = "Resume" THEN "skills" ELSE "requiredSkills"

SkillCap == IF doc_type = "Resume" THEN 20 ELSE 25

\* a skill ignoring case and surrounding whitespace
SkillKey(item) ==
    IF item.t = "dict"
    THEN Strip(Lower(PyStrOf(DictGet(item, Chars("name"), PyStr(<<>>)))))
    ELSE Strip(Lower(PyStrOf(item)))

\* the skills the record lists under field
SkillKeys(record, field) ==
    LET v == DictGet(record, Chars(field), PyList(<<>>))
    IN  IF v.t = "list" THEN [i \in 1..Len(v.l) |-> SkillKey(v.l[i])] ELSE <<>>

\* the skills of 2 to 50 characters, each where it first occurs
RECURSIVE FirstOccurrences(_, _)
FirstOccurrences(keys, kept) ==
    IF keys = <<>> THEN kept
    ELSE FirstOccurrences(Tail(keys),
                          IF /\ Len(Head(keys)) >= 2 /\ Len(Head(keys)) <= 50
                             /\ \A j \in 1..Len(kept) : kept[j] /= Head(keys)
                          THEN Append(kept, Head(keys)) ELSE kept)

\* C18 (as claimed): after normalization and post-processing the skills of a
\* resume, and the required skills of a job description, are the skills of
\* the normalized record with a trimmed length of 2 to 50 characters, each
\* once (ignoring case and surrounding whitespace) in the order of its first
\* occurrence, cut to 20 and to 25 entries.
C18_SkillsUniqueAndBounded ==
    (pc = "extract_structured_data_stable" /\ data.t = "dict") =>
        LET expected == FirstOccurrences(SkillKeys(Normalized, SkillField), <<>>)
        IN  SkillKeys(data, SkillField) = SubSeq(expected, 1, Min(SkillCap, Len(expected)))

\* the field of the record that counts years
YearsKey == IF doc_type = "Resume" THEN Chars("totalYearsExperience")
            ELSE Chars("minExperienceYears")

\* C19 (as claimed): after normalization the years field of a record is a
\* non-negative integer, and it is 0 when the response gives null or nothing
\* for it.
C19_YearsNonNegativeInteger ==
    (pc = "parse_with_validation" /\ data.t = "dict") =>
        LET raw == clean_json_response(response_text)
            years == DictGet(data, YearsKey, PyNone)
        IN  /\ years.t = "int"
            /\ years.n >= 0
            /\ (raw.t = "dict" /\ DictGet(raw, YearsKey, PyNone).t = "none") => years.n = 0

\* the fields of the record that hold lists
ListFields ==
    IF doc_type = "Resume" THEN {"skills", "education", "experienceDetails"}
    ELSE {"requiredSkills", "preferredSkills"}

\* C20 (as claimed): a list field that the response gives as a bare string
\* is, after normalization, a list of one element: the {name} entry of the
\* string for skills, the string itself for required and preferred skills.
C20_BareScalarIsWrapped ==
    (pc = "parse_with_validation" /\ data.t = "dict") =>
        LET raw == clean_json_response(response_text)
        IN  raw.t = "dict" =>
                \A f \in ListFields :
                    LET v == DictGet(raw, Chars(f), PyNone)
                        out == DictGet(data, Chars(f), PyNone)
                    IN  (v.t = "str" /\ Strip(v.s) /= <<>>) =>
                            /\ out.t = "list"
                            /\ Len(out.l) = 1
                            /\ f = "skills" => out.l[1] = Dict1("name", PyStr(Strip(v.s)))
                            /\ f \in {"requiredSkills", "preferredSkills"} =>
                                   out.l[1] = PyStr(Strip(v.s))

-----------------------------------------------------------------------------
(* Properties of the match report *)

\* C21 (as claimed): calculate_match raises exactly when the resume and the
\* job description are both None; with at most one of them None or empty it
\* returns a report.
C21_RaisesOnlyWhenBothAbsent ==
    pc = "calculate_match" =>
        (match_result.raised <=> (resume_data = PyNone /\ jd_data = PyNone))

\* the dimensions in the order of the report
Dimensions == <<"Experience", "Education", "Skills">>

\* C22: the gaps of a report name the dimensions that are not met, each once
\* and in the order experience, education, skills, with its percentage; the
\* recommendations are the three detail sentences of the dimensions, met or
\* not.
C22_GapsAreTheUnmetDimensions ==
    (pc = "calculate_match" /\ ~match_result.raised) =>
        LET unmet == SelectSeq(<<1, 2, 3>>, LAMBDA i : ~match_result.met[i])
            results == <<check_experience_match(resume_data, jd_data),
                         check_education_match(resume_data, jd_data),
                         check_skills_match(resume_data, jd_data)>>
        IN  /\ Len(match_result.gaps) = Len(unmet)
            /\ \A n \in 1..Len(unmet) :
                   match_result.gaps[n] =
                       <<Dimensions[unmet[n]], results[unmet[n]].percentage>>
            /\ \A i \in 1..3 : match_result.met[i] = results[i].met
            /\ match_result.recommendations =
                   <<results[1].details, results[2].details, results[3].details>>

\* a report with one dimension met and two not
C22_Witness ==
    /\ pc = "calculate_match"
    /\ ~match_result.raised
    /\ match_result.met = <<FALSE, TRUE, FALSE>>
    /\ Len(match_result.gaps) = 2
    /\ match_result.gaps[1][1] = "Experience"
    /\ match_result.gaps[2][1] = "Skills"
    /\ Len(match_result.recommendations) = 3

-----------------------------------------------------------------------------
(* Properties of batch matching *)

\* the files of the batch that are scored, in the order of the batch
ScoredFiles == {i \in 1..Len(batch_files) : batch_files[i].kind = "scored"}

\* C23: while files are still being handled the results stand in the order
\* of the files; the ranked results exist only when every file has been
\* scored or put down as an error, they hold each scored file once, with
\* overallScore descending and files of equal score in the order of the
\* batch.
C23_RankedAfterAllScored ==
    /\ pc \in {"call", "batch_match loop"} =>
           /\ Len(batch_results) + Len(batch_errors) = batch_index
           /\ \A i, j \in 1..Len(batch_results) :
                  i < j => batch_results[i].filename < batch_results[j].filename
    /\ pc = "batch_match" =>
           /\ batch_index = Len(batch_files)
           /\ Len(batch_results) + Len(batch_errors) = Len(batch_files)
           /\ {batch_results[i].filename : i \in 1..Len(batch_results)} = ScoredFiles
           /\ Len(batch_results) = Cardinality(ScoredFiles)
           /\ \A i \in 1..Len(batch_results) :
                  batch_results[i].overallScore =
                      batch_files[batch_results[i].filename].overallScore
           /\ \A i, j \in 1..Len(batch_results) :
                  i < j =>
                      \/ batch_results[i].overallScore > batch_results[j].overallScore
                      \/ /\ batch_results[i].overallScore = batch_results[j].overallScore
                         /\ batch_results[i].filename < batch_results[j].filename

\* three files ranked: the third has the highest score, the first two tie
C23_Witness ==
    /\ pc = "batch_match"
    /\ Len(batch_results) = 3
    /\ batch_results[1].filename = 3
    /\ batch_results[2].filename = 1
    /\ batch_results[3].filename = 2
    /\ batch_results[2].overallScore = batch_results[3].overallScore

-----------------------------------------------------------------------------
(* Properties of recovery on valid JSON *)

\* C24 (as claimed): when the response is a valid JSON object,
\* extract_json_string returns a text that parses to the same value, the
\* first attempt of try_parse_json accepts it, and extract_json_string
\* returns that text unchanged when given it.
C24_ValidJsonIsKept ==
    (/\ pc = "clean_json_response"
     /\ json_loads(response_text).ok
     /\ json_loads(response_text).v.t = "dict") =>
        /\ json_str.t = "str"
        /\ json_loads(json_str.s).ok
        /\ json_loads(json_str.s).v = json_loads(response_text).v
        /\ ParseTier(json_str.s) = 1
        /\ data = json_loads(response_text).v
        /\ extract_json_string(json_str.s) = json_str

-----------------------------------------------------------------------------
(* Properties of the skill match results *)

\* how often name stands in the list names
Occurrences(names, name) == Cardinality({i \in 1..Len(names) : names[i] = name})

\* C25 (as claimed): for a non-empty list of required skills there is one
\* match result per required skill, with a confidence in [0, 1]; every
\* required skill is either matched or missing, so the matched and the
\* missing together are as many as the required, and so are the results.
C25_OneResultPerRequiredSkill ==
    (pc = "check_skills_match" /\ RequiredNames /= <<>>) =>
        /\ ~skills_result.raised
        /\ skills_result.requiredSkillsCount = Len(RequiredNames)
        /\ Len(skills_result.matchedSkills) + Len(skills_result.missingSkills)
               = skills_result.requiredSkillsCount
        /\ \A i \in 1..Len(RequiredNames) :
               Occurrences(skills_result.matchedSkills, RequiredNames[i])
                   + Occurrences(skills_result.missingSkills, RequiredNames[i])
                   = Occurrences(RequiredNames, RequiredNames[i])
        /\ \A i \in 1..Len(skills_result.skillMatchDetails) :
               /\ ConfAtLeast(skills_result.skillMatchDetails[i].confidence, <<0, 1>>)
               /\ ConfAtLeast(<<1, 1>>, skills_result.skillMatchDetails[i].confidence)
        /\ Len(skills_result.skillMatchDetails) = skills_result.requiredSkillsCount

\* the result of candidate skill j for the required skill
ResultOf(j, required) ==
    find_skill_match(PyStr(skills_result.allCandidateSkills[j]), PyStr(required))

\* candidate skill j is the earliest of the positive matches of the required
\* skill that have the highest confidence
EarliestBest(j, required) ==
    /\ ResultOf(j, required).is_match
    /\ \A k \in 1..Len(skills_result.allCandidateSkills) :
           ResultOf(k, required).is_match =>
               /\ ConfAtLeast(ResultOf(j, required).confidence,
                              ResultOf(k, required).confidence)
               /\ k < j => ConfGreater(ResultOf(j, required).confidence,
                                       ResultOf(k, required).confidence)

\* C27: the match kept for a required skill is that of the candidate skill
\* with the highest confidence among the positive matches, the earliest in
\* the candidate's list when several have it.
C27_BestMatchIsEarliestMaximum ==
    (pc = "check_skills_match" /\ ~skills_result.raised) =>
        \A i \in 1..Len(skills_result.skillMatchDetails) :
            LET d == skills_result.skillMatchDetails[i]
            IN  \E j \in 1..Len(skills_result.allCandidateSkills) :
                    /\ EarliestBest(j, d.required)
                    /\ d.matched = skills_result.allCandidateSkills[j]
                    /\ d.type = ResultOf(j, d.required).type
                    /\ d.confidence = Round2(ResultOf(j, d.required).confidence)

\* React is required: ReactJS comes first with a fuzzy match, react and React
\* follow with an exact one, and react is kept
C27_Witness ==
    /\ pc = "check_skills_match"
    /\ ~skills_result.raised
    /\ Len(skills_result.allCandidateSkills) = 5
    /\ \E i \in 1..Len(skills_result.skillMatchDetails) :
           /\ skills_result.skillMatchDetails[i].required = Chars("React")
           /\ skills_result.skillMatchDetails[i].matched = Chars("react")
           /\ skills_result.skillMatchDetails[i].type = "exact"
           /\ ResultOf(1, Chars("React")).type = "fuzzy"
           /\ ResultOf(3, Chars("React")).type = "exact"

-----------------------------------------------------------------------------
(* Properties of the validation of responses *)

\* C26 (as claimed): validate_json_response accepts every response from
\* which extract_json_string and try_parse_json recover an object that is
\* not empty, so that
\* the response is handed to recovery; it rejects the responses that are
\* empty or hold no brace, and a rejected response yields no record.
C26_ValidationAcceptsRecoverable ==
    pc = "extract_structured_data_stable" =>
        LET stripped == Strip(response_text)
        IN  /\ (clean_json_response(stripped).t = "dict"
                    /\ PyTruthy(clean_json_response(stripped))) =>
                   (validate_json_response(stripped) /\ data /= PyNone)
            /\ (stripped = <<>> \/ Find(stripped, "{") = 0) =>
                   ~validate_json_response(stripped)
            /\ ~validate_json_response(stripped) => data = PyNone

-----------------------------------------------------------------------------
(* Properties of the aggressive recovery *)

\* C28 (as claimed): when the third attempt of try_parse_json runs, no prefix
\* of the text aggressive_json_recovery keeps has more closing than opening
\* braces, or more closing than opening brackets, and its output has as many
\* closing as opening braces and as many closing as opening brackets.
C28_KeptTextIsBalancedSoFar ==
    (/\ pc = "clean_json_response"
     /\ json_str.t = "str"
     /\ ParseTier(json_str.s) \in {0, 3}) =>
        LET kept == TruncateToBalanced(json_str.s)
            out == aggressive_json_recovery(json_str.s)
        IN  /\ \A i \in 1..Len(kept) :
                   /\ Depth(kept, i, "{", "}") >= 0
                   /\ Depth(kept, i, "[", "]") >= 0
            /\ Count(out, "{") = Count(out, "}")
            /\ Count(out, "[") = Count(out, "]")

-----------------------------------------------------------------------------
(* Properties of the experience total *)

\* C29 (as claimed): the total of calculate_experience_from_details is a
\* number of years that is not negative and a number of months from 0 to 11.
C29_MonthsBelowTwelve ==
    pc = "calculate_experience_from_details" =>
        /\ exp_total[1] >= 0
        /\ exp_total[2] >= 0
        /\ exp_total[2] <= 11

-----------------------------------------------------------------------------
(* Properties of call_ollama and its cache                                 *)

\* a response that call_ollama may hand on: not empty, and accepted by the
\* validation function of the call
Accepted(stripped) == stripped # <<>> /\ validate_json_response(stripped)

\* what holds of the cache, of the value returned and of the requests made
OllamaKept ==
    /\ \A h \in DOMAIN extraction_cache : Accepted(extraction_cache[h])
    /\ ollama_returned.t \notin {"none", "raise"} =>
          ollama_returned.t = "str" /\ Accepted(ollama_returned.s)
    /\ ollama_requests <= ollama_max_retries

\* a call whose prompt has a cached digest returns the cached response at
\* once: no request is made and the cache is left as it is
AnsweredFromCache ==
    (pc = "call" /\ ollama_calls' = ollama_calls + 1
       /\ PromptHash(ollama_prompt') \in DOMAIN extraction_cache)
    => /\ pc' = "call"
       /\ ollama_requests' = 0
       /\ ollama_returned' = PyStr(extraction_cache[PromptHash(ollama_prompt')])
       /\ extraction_cache' = extraction_cache

\* C30: over calls of call_ollama that all validate, every value returned
\* other than None and every cached value is a non-empty response that passed
\* the validation, so an empty or rejected response is neither cached nor
\* returned; a prompt whose digest is cached is answered from the cache with
\* no request; and a call makes at most max_retries requests.
C30_CacheHoldsOnlyAcceptedResponses == []OllamaKept /\ [][AnsweredFromCache]_vars

\* a third call, of a prompt sharing its digest with an earlier one, answered
\* from the cache with no request, both digests being cached by then
C30_Witness ==
    /\ pc = "call"
    /\ ollama_calls = 3
    /\ ollama_prompt = "resume C"
    /\ ollama_requests = 0
    /\ ollama_max_retries > 0
    /\ ollama_returned = PyStr(Chars("{\"skills\":[\"Go\"]}"))
    /\ DOMAIN extraction_cache = {"digest 1", "digest 2"}

====
